---- MODULE Spec2Model ----
(***************************************************************************)
(* Verification model of the applesauce-mcp text segmentation and          *)
(* retrieval-ranking code:                                                 *)
(*   - splitIntoSentences          (src/src/lib/sentence-splitter.ts)      *)
(*   - isGarbageChunk, SemanticChunker (semantic chunker, Max-Min)         *)
(*   - the docs database module    (src/src/lib/lancedb.ts): hybrid search *)
(*   - ingestDocs, ingestDocFile   (src/scripts/ingest.ts)                 *)
(*   - the MCP server: the tools/call handler, the tool handlers and the   *)
(*     start of the server by mcpCommand                                   *)
(*                                                                         *)
(* Strings are sequences of one-character strings.  Floating point values  *)
(* are exact rationals [n |-> numerator, d |-> denominator > 0].           *)
(***************************************************************************)
EXTENDS Integers, Sequences, FiniteSets, TLC

VARIABLES
  phase,              \* position of the pure-function harnesses: "input" | "done"
  sentences,          \* groupSentences: the sentence list
  embeddings,         \* groupSentences: the embedding list (one vector per sentence)
  sentenceGroups,     \* groupSentences: the groups returned
  config,             \* SemanticChunker: this.config (the fields groupSentences reads)
  text,               \* splitIntoSentences: the input text
  splitResult,        \* splitIntoSentences: the sentences returned
  garbageText,        \* isGarbageChunk: the chunk text
  garbageResult,      \* isGarbageChunk: the value returned
  boostArgs,          \* applyKeywordBoost: [vectorResults, ftsResults, weight]
  boostedResults,     \* applyKeywordBoost: the list returned
  groupingArgs,       \* applyGrouping: [results, mode]
  groupingResult,     \* applyGrouping: the list returned
  chunkerInput,       \* chunkText: [text, minChunkLength, embeddings] of the run
  chunkCalls,         \* chunkText: the calls, one per SemanticChunker instance
  docsRoot,           \* ingest: the markdown files under DOCS_ROOT and what they hold
  tableRows,          \* the rows of the docs table
  ingest,             \* ingest: the ingestDocs() call
  database,           \* lancedb.ts: the singleton connection is set
  docsTable,          \* lancedb.ts: the docs table handle is held
  ftsEnabled,         \* lancedb.ts: ftsEnabled
  hybridWeight,       \* lancedb.ts: hybridWeight
  candidateMultiplier,\* lancedb.ts: candidateMultiplier
  diskTables,         \* the table names in the LanceDB directory
  diskIndices,        \* the names of the FTS indices of the docs table
  initCall,           \* the initDocsDatabase() call in flight
  search,             \* the searchDocs() call in flight
  toolCall,           \* MCP server: the tools/call request in hand
  startup             \* mcpCommand: the start of the server, and what it wrote

vars == <<phase, sentences, embeddings, sentenceGroups, config, text, splitResult,
          garbageText, garbageResult, boostArgs, boostedResults,
          chunkerInput, chunkCalls, docsRoot, tableRows, ingest,
          groupingArgs, groupingResult,
          database, docsTable, ftsEnabled, hybridWeight, candidateMultiplier,
          diskTables, diskIndices, initCall, search, toolCall, startup>>

moduleVars == <<database, docsTable, ftsEnabled, hybridWeight, candidateMultiplier>>

dbVars == <<moduleVars, diskTables, diskIndices, initCall, search>>

chunkVars == <<sentences, embeddings, sentenceGroups, config>>

splitVars == <<text, splitResult>>

garbageVars == <<garbageText, garbageResult>>

\* DEFAULT_CHUNKER_CONFIG, as exact fractions
DEFAULT_CHUNKER_CONFIG ==
  [hardThreshold |-> [n |-> 3, d |-> 5],
   initConst |-> [n |-> 3, d |-> 2],
   c |-> [n |-> 9, d |-> 10]]

\* The variables of a harness that is not running.
ChunkIdle ==
  /\ sentences = <<>> /\ embeddings = <<>> /\ sentenceGroups = <<>>
  /\ config = DEFAULT_CHUNKER_CONFIG

SplitIdle == text = <<>> /\ splitResult = <<>>

GarbageIdle == garbageText = <<>> /\ garbageResult = FALSE

groupingVars == <<groupingArgs, groupingResult>>

GroupingIdle == groupingArgs = <<>> /\ groupingResult = <<>>

chunkTextVars == <<chunkerInput, chunkCalls>>

ChunkTextIdle == chunkerInput = <<>> /\ chunkCalls = <<>>

ingestVars == <<docsRoot, tableRows, ingest>>

IngestIdle == docsRoot = <<>> /\ tableRows = {} /\ ingest = <<>>

serverVars == <<toolCall, startup>>

ServerIdle == toolCall = <<>> /\ startup = <<>>

boostVars == <<boostArgs, boostedResults>>

BoostIdle == boostArgs = <<>> /\ boostedResults = <<>>

(***************************************************************************)
(* Exact rational arithmetic standing in for IEEE doubles.                 *)
(***************************************************************************)
RECURSIVE GCD(_, _)
GCD(a, b) == IF b = 0 THEN a ELSE GCD(b, a % b)

\* The rational n / d (d > 0) in lowest terms: equal numbers are equal records.
Rat(n, d) ==
  LET g == GCD(IF n < 0 THEN -n ELSE n, d)
  IN  [n |-> n \div g, d |-> d \div g]

RLess(a, b) == a.n * b.d < b.n * a.d

RLeq(a, b) == a.n * b.d <= b.n * a.d

RMul(a, b) == Rat(a.n * b.n, a.d * b.d)

RAdd(a, b) == Rat(a.n * b.d + b.n * a.d, a.d * b.d)

\* a / b for b > 0
RDiv(a, b) == Rat(a.n * b.d, a.d * b.n)

RMax(a, b) == IF RLess(a, b) THEN b ELSE a

\* The docs database module as it is loaded, no call in flight.
ModuleLoaded ==
  /\ database = FALSE
  /\ docsTable = FALSE
  /\ ftsEnabled = FALSE
  /\ hybridWeight = Rat(6, 10)
  /\ candidateMultiplier = 2

DbIdle ==
  /\ ModuleLoaded
  /\ diskTables = {} /\ diskIndices = {}
  /\ initCall = <<>> /\ search = <<>>

\* Math.sqrt on the squared norms the model draws: they are perfect squares.
ISqrt(x) == CHOOSE r \in 0..x : r * r = x

(***************************************************************************)
(* Strings and the JavaScript string operations the code uses.             *)
(***************************************************************************)
SetMin(S) == CHOOSE x \in S : \A y \in S : x <= y

SetMax(S) == CHOOSE x \in S : \A y \in S : y <= x

\* \s
Space == {" ", "\n", "\t"}

\* \d
Digit == {"0", "1", "2", "3", "4", "5", "6", "7", "8", "9"}

\* [A-Z]
Upper == {"A", "B", "C", "D", "E", "F", "G", "H", "I", "J", "K", "L", "M",
          "N", "O", "P", "Q", "R", "S", "T", "U", "V", "W", "X", "Y", "Z"}

\* [a-z]
Lower == {"a", "b", "c", "d", "e", "f", "g", "h", "i", "j", "k", "l", "m",
          "n", "o", "p", "q", "r", "s", "t", "u", "v", "w", "x", "y", "z"}

\* [.!?]
Punct == {".", "!", "?"}

\* The backquote character (a string literal cannot hold it).
Backtick == "BACKQUOTE"

\* First position >= from whose character is in (or, with inSet FALSE, not
\* in) the set C; Len(s) + 1 when there is none.
FirstAt(s, from, C, inSet) ==
  CHOOSE i \in from..(Len(s) + 1) :
     /\ i = Len(s) + 1 \/ (s[i] \in C) = inSet
     /\ \A j \in from..(i - 1) : (s[j] \in C) # inSet

\* Last position whose character is not in the set C; 0 when there is none.
LastNotIn(s, C) ==
  CHOOSE i \in 0..Len(s) :
     /\ i = 0 \/ s[i] \notin C
     /\ \A j \in (i + 1)..Len(s) : s[j] \in C

\* String.prototype.trim
trim(s) == SubSeq(s, FirstAt(s, 1, Space, FALSE), LastNotIn(s, Space))

\* s has pat at (1-based) position pos.
StartsWithAt(s, pos, pat) ==
  /\ pos >= 1
  /\ pos + Len(pat) - 1 <= Len(s)
  /\ (Len(pat) > 0 => s[pos] = pat[1])
  /\ SubSeq(s, pos, pos + Len(pat) - 1) = pat

\* String.prototype.indexOf, 1-based; 0 when pat does not occur.
indexOf(s, pat) ==
  LET hits == { p \in 1..(Len(s) - Len(pat) + 1) : StartsWithAt(s, p, pat) }
  IN  IF hits = {} THEN 0 ELSE SetMin(hits)

\* String.prototype.split with a one-character separator.
RECURSIVE splitChar(_, _)
splitChar(s, ch) ==
  LET p == FirstAt(s, 1, {ch}, TRUE)
  IN  IF p > Len(s) THEN <<s>>
      ELSE <<SubSeq(s, 1, p - 1)>> \o splitChar(SubSeq(s, p + 1, Len(s)), ch)

\* GetSubstitution of String.prototype.replace(searchString, replaceValue)
\* for a string pattern (no captures): $$ is "$", $& the matched text,
\* $` the text before the match, $' the text after it; any other "$" is
\* literal.
RECURSIVE getSubstitution(_, _, _, _)
getSubstitution(template, matched, before, after) ==
  LET p == FirstAt(template, 1, {"$"}, TRUE)
      nxt == IF p < Len(template) THEN template[p + 1] ELSE ""
      rest == SubSeq(template, p + 2, Len(template))
  IN  IF p > Len(template) THEN template
      ELSE SubSeq(template, 1, p - 1) \o
           ( CASE nxt = "$" -> <<"$">> \o getSubstitution(rest, matched, before, after)
               [] nxt = "&" -> matched \o getSubstitution(rest, matched, before, after)
               [] nxt = Backtick -> before \o getSubstitution(rest, matched, before, after)
               [] nxt = "'" -> after \o getSubstitution(rest, matched, before, after)
               [] OTHER -> <<"$">> \o getSubstitution(SubSeq(template, p + 1, Len(template)),
                                                     matched, before, after) )

\* String.prototype.replace(searchString, replaceValue): the first occurrence.
replace(s, searchString, replaceValue) ==
  LET pos == indexOf(s, searchString)
      before == SubSeq(s, 1, pos - 1)
      after == SubSeq(s, pos + Len(searchString), Len(s))
  IN  IF pos = 0 THEN s
      ELSE before \o getSubstitution(replaceValue, searchString, before, after) \o after

(***************************************************************************)
(* splitIntoSentences                                                      *)
(***************************************************************************)
MAX_SENTENCE_LENGTH == 2000

Fence == <<Backtick, Backtick, Backtick>>

\* codeBlockRegex /```[\s\S]*?```|`[^`]+`/ tried at position p: the last
\* position of the match, 0 when there is none.
codeBlockMatchEnd(s, p) ==
  LET closers == { q \in (p + 3)..Len(s) : StartsWithAt(s, q, Fence) }
      tick == FirstAt(s, p + 1, {Backtick}, TRUE)
  IN  IF StartsWithAt(s, p, Fence) /\ closers # {} THEN SetMin(closers) + 2
      ELSE IF p <= Len(s) /\ s[p] = Backtick /\ tick <= Len(s) /\ tick >= p + 2 THEN tick
      ELSE 0

\* The exec loop: every match of codeBlockRegex, left to right from p.
RECURSIVE codeBlocksFrom(_, _)
codeBlocksFrom(s, p) ==
  LET q == FirstAt(s, p, {Backtick}, TRUE)
      e == codeBlockMatchEnd(s, q)
  IN  IF q > Len(s) THEN <<>>
      ELSE IF e = 0 THEN codeBlocksFrom(s, q + 1)
      ELSE <<SubSeq(s, q, e)>> \o codeBlocksFrom(s, e + 1)

DigitChars == <<"0", "1", "2", "3", "4", "5", "6", "7", "8", "9">>

RECURSIVE decimal(_)
decimal(i) ==
  IF i < 10 THEN <<DigitChars[i + 1]>>
  ELSE decimal(i \div 10) \o <<DigitChars[(i % 10) + 1]>>

\* `__CODE_BLOCK_${i}__`
placeholder(i) ==
  <<"_", "_", "C", "O", "D", "E", "_", "B", "L", "O", "C", "K", "_">>
    \o decimal(i) \o <<"_", "_">>

RECURSIVE insertPlaceholders(_, _, _)
insertPlaceholders(s, codeBlocks, i) ==
  IF i > Len(codeBlocks) THEN s
  ELSE insertPlaceholders(replace(s, codeBlocks[i], placeholder(i - 1)),
                          codeBlocks, i + 1)

abbreviations ==
  << <<"D", "r">>, <<"M", "r">>, <<"M", "r", "s">>, <<"M", "s">>, <<"J", "r">>,
     <<"S", "r">>, <<"P", "r", "o", "f">>, <<"P", "h", ".", "D">>,
     <<"M", ".", "D">>, <<"B", ".", "A">>, <<"M", ".", "A">>,
     <<"D", ".", "D", ".", "S">>, <<"e", "t", "c">>, <<"i", ".", "e">>,
     <<"e", ".", "g">>, <<"v", "s">>, <<"v">> >>

\* (?!(Dr\.|Mr\.|...)): the text at pos starts with no abbreviation + "."
abbrevLookahead(s, pos) ==
  \A a \in 1..Len(abbreviations) :
     ~StartsWithAt(s, pos, abbreviations[a] \o <<".">>)

\* (?=\s+[A-Z]|\s*$) at pos
boundaryLookahead(s, pos) ==
  LET f == FirstAt(s, pos, Space, FALSE)
  IN  \/ f > pos /\ f <= Len(s) /\ s[f] \in Upper
      \/ f > Len(s)

\* sentenceRegex tried at position q: the length of the match ([.!?]+ is
\* greedy and gives characters back), 0 when there is none.
sentenceMatchLen(s, q) ==
  LET run == FirstAt(s, q, Punct, FALSE) - q
      lens == { n \in 1..run : boundaryLookahead(s, q + n) /\ abbrevLookahead(s, q + n) }
  IN  IF q > 1 /\ s[q - 1] \in Digit THEN 0
      ELSE IF lens = {} THEN 0
      ELSE SetMax(lens)

\* The capture group inside the negative lookahead: always undefined.
Undefined == <<"undefined">>

\* String.prototype.split(sentenceRegex) from position p: the text before each
\* match, then its two capture groups.
RECURSIVE splitSentenceRegex(_, _)
splitSentenceRegex(s, p) ==
  LET hits == { q \in p..Len(s) : s[q] \in Punct /\ sentenceMatchLen(s, q) > 0 }
      q == SetMin(hits)
      n == sentenceMatchLen(s, q)
  IN  IF hits = {} THEN <<SubSeq(s, p, Len(s))>>
      ELSE <<SubSeq(s, p, q - 1), SubSeq(s, q, q + n - 1), Undefined>>
             \o splitSentenceRegex(s, q + n)

IsPunctOnly(s) == Len(s) > 0 /\ \A i \in 1..Len(s) : s[i] \in Punct

\* The reassembly loop over parts; st = [sentences, currentSentence].
RECURSIVE reassemble(_, _, _)
reassemble(parts, i, st) ==
  IF i > Len(parts)
    THEN IF Len(trim(st.currentSentence)) > 0
           THEN Append(st.sentences, trim(st.currentSentence))
           ELSE st.sentences
  ELSE LET part == parts[i]
           trimmedPart == trim(part)
       IN  IF part = Undefined \/ Len(part) = 0 \/ Len(trimmedPart) = 0
             THEN reassemble(parts, i + 1, st)
           ELSE IF IsPunctOnly(trimmedPart)
             THEN reassemble(parts, i + 1,
                    [sentences |-> Append(st.sentences,
                                          trim(st.currentSentence \o trimmedPart)),
                     currentSentence |-> <<>>])
           ELSE reassemble(parts, i + 1,
                    [sentences |-> st.sentences,
                     currentSentence |->
                        st.currentSentence
                          \o (IF Len(st.currentSentence) > 0 THEN <<" ">> ELSE <<>>)
                          \o trimmedPart])

RECURSIVE restoreCodeBlocks(_, _, _)
restoreCodeBlocks(sentence, codeBlocks, i) ==
  IF i > Len(codeBlocks) THEN sentence
  ELSE restoreCodeBlocks(replace(sentence, placeholder(i - 1), codeBlocks[i]),
                         codeBlocks, i + 1)

\* The comma loop on one over-long line; st = [out, buffer].
RECURSIVE commaLoop(_, _, _)
commaLoop(parts, i, st) ==
  IF i > Len(parts)
    THEN IF Len(trim(st.buffer)) > 0 THEN Append(st.out, trim(st.buffer)) ELSE st.out
  ELSE IF Len(st.buffer \o parts[i]) > MAX_SENTENCE_LENGTH /\ Len(st.buffer) > 0
    THEN commaLoop(parts, i + 1, [out |-> Append(st.out, trim(st.buffer)),
                                  buffer |-> parts[i]])
  ELSE commaLoop(parts, i + 1,
         [out |-> st.out,
          buffer |-> st.buffer \o (IF Len(st.buffer) > 0 THEN <<",">> ELSE <<>>)
                       \o parts[i]])

RECURSIVE lineLoop(_, _)
lineLoop(lines, i) ==
  IF i > Len(lines) THEN <<>>
  ELSE LET line == lines[i]
       IN  ( IF Len(trim(line)) = 0 THEN <<>>
             ELSE IF Len(line) > MAX_SENTENCE_LENGTH
               THEN commaLoop(splitChar(line, ","), 1, [out |-> <<>>, buffer |-> <<>>])
             ELSE <<trim(line)>> ) \o lineLoop(lines, i + 1)

\* The post-processing of one restored sentence.
splitLongSentence(sentence) ==
  IF Len(trim(sentence)) = 0 THEN <<>>
  ELSE IF Len(sentence) > MAX_SENTENCE_LENGTH
    THEN lineLoop(splitChar(sentence, "\n"), 1)
  ELSE <<sentence>>

RECURSIVE postProcess(_, _)
postProcess(finalSentences, i) ==
  IF i > Len(finalSentences) THEN <<>>
  ELSE splitLongSentence(finalSentences[i]) \o postProcess(finalSentences, i + 1)

splitIntoSentences(txt) ==
  IF Len(txt) = 0 \/ Len(trim(txt)) = 0 THEN <<>>
  ELSE LET codeBlocks == codeBlocksFrom(txt, 1)
           textWithPlaceholders == insertPlaceholders(txt, codeBlocks, 1)
           parts == splitSentenceRegex(textWithPlaceholders, 1)
           sents == reassemble(parts, 1, [sentences |-> <<>>, currentSentence |-> <<>>])
           finalSentences == [k \in 1..Len(sents) |->
                                 restoreCodeBlocks(sents[k], codeBlocks, 1)]
           result == postProcess(finalSentences, 1)
       IN  SelectSeq(result, LAMBDA x : Len(x) > 0)

(***************************************************************************)
(* Harness of splitIntoSentences: the text is drawn in Init, one call.     *)
(***************************************************************************)
MaxWords == 4

LongLen == 1001

\* Words the short input texts are concatenated from.
Lexicon ==
  { <<"D", "r">>, <<".">>, <<" ">>, <<"A">>, <<"b">>, <<Backtick>>, Fence,
    <<"$">>, <<"&">>, <<",">>, <<"\n">>, <<"7">> }

RECURSIVE Concat(_)
Concat(ws) == IF ws = <<>> THEN <<>> ELSE Head(ws) \o Concat(Tail(ws))

ShortTexts == { Concat(ws) : ws \in UNION { [1..m -> Lexicon] : m \in 0..MaxWords } }

\* A line of LongLen letters without punctuation.
LongWord == [i \in 1..LongLen |-> "x"]

Joiners == { <<>>, <<Backtick>>, <<",">>, <<"\n">>, <<" ">> }

\* Two long words with a joiner before, between and after them.
LongTexts ==
  { a \o LongWord \o b \o LongWord \o c : <<a, b, c>> \in Joiners \X Joiners \X Joiners }

SplitInit ==
  /\ phase = "input"
  /\ text \in ShortTexts \cup LongTexts
  /\ splitResult = <<>>
  /\ ChunkIdle /\ GarbageIdle /\ BoostIdle /\ DbIdle /\ GroupingIdle /\ ChunkTextIdle /\ IngestIdle /\ ServerIdle

SplitIntoSentences ==
  /\ phase = "input"
  /\ splitResult' = splitIntoSentences(text)
  /\ phase' = "done"
  /\ UNCHANGED <<text, chunkVars, garbageVars, boostVars, dbVars, groupingVars, chunkTextVars, ingestVars, serverVars>>

SpecSplit == SplitInit /\ [][SplitIntoSentences]_vars

Contains(s, pat) == indexOf(s, pat) > 0

\* The fenced and inline code spans of a text: the matches of codeBlockRegex.
CodeSpans(txt) == LET bs == codeBlocksFrom(txt, 1) IN { bs[k] : k \in 1..Len(bs) }

(***************************************************************************)
(* C2: every fenced or inline code span of the input text appears          *)
(* verbatim, unaltered and in one piece, inside one returned sentence.     *)
(***************************************************************************)
C2_CodeSpansVerbatim ==
  phase = "done" =>
     \A span \in CodeSpans(text) :
        \E k \in 1..Len(splitResult) : Contains(splitResult[k], span)

(***************************************************************************)
(* C3: no returned sentence is longer than MAX_SENTENCE_LENGTH.            *)
(***************************************************************************)
C3_SentenceLengthBounded ==
  phase = "done" =>
     \A k \in 1..Len(splitResult) : Len(splitResult[k]) <= MAX_SENTENCE_LENGTH

\* The stretches "<abbreviation>.<whitespace><uppercase letter>" of a text
\* that start a word.
AbbrevStretches(txt) ==
  { SubSeq(txt, p, FirstAt(txt, p + Len(abbreviations[a]) + 1, Space, FALSE)) :
      <<p, a>> \in { pa \in (1..Len(txt)) \X (1..Len(abbreviations)) :
                       LET p == pa[1]
                           e == p + Len(abbreviations[pa[2]])
                           f == FirstAt(txt, e + 1, Space, FALSE)
                       IN  /\ StartsWithAt(txt, p, abbreviations[pa[2]] \o <<".">>)
                           /\ (p = 1 \/ txt[p - 1] \notin Upper \cup Lower \cup Punct)
                           /\ f > e + 1 /\ f <= Len(txt) /\ txt[f] \in Upper } }

(***************************************************************************)
(* C4: the period ending a listed abbreviation, followed by whitespace and *)
(* an uppercase letter, is no sentence boundary: the abbreviation and the  *)
(* text after it are in the same returned sentence.                        *)
(***************************************************************************)
C4_AbbreviationNotBoundary ==
  phase = "done" =>
     \A stretch \in AbbrevStretches(text) :
        \E k \in 1..Len(splitResult) : Contains(splitResult[k], stretch)

(***************************************************************************)
(* Semantic chunker (Max-Min algorithm)                                    *)
(***************************************************************************)
WINDOW_SIZE == 5

MAX_SENTENCES == 15

\* this.config.hardThreshold, this.config.initConst, this.config.c
hardThreshold == config.hardThreshold

initConst == config.initConst

cScale == config.c

minChunkLength == 50

\* Mutation: a curve that falls as the chunk grows.
sigmoidFalling(x) ==
  CASE x <= 0 -> Rat(1, 2)
    [] x = 1 -> Rat(26894, 100000)
    [] x = 2 -> Rat(11920, 100000)
    [] x = 3 -> Rat(4743, 100000)
    [] OTHER -> Rat(1, 100000)

\* 1 / (1 + Math.exp(-x)) to five decimals (1 is never reached: the double
\* is below 1 for every group size the chunker can pass).
sigmoid(x) ==
  Rat(CASE x <= 0 -> 50000
        [] x = 1 -> 73106
        [] x = 2 -> 88080
        [] x = 3 -> 95257
        [] x = 4 -> 98201
        [] x = 5 -> 99331
        [] x = 6 -> 99753
        [] x = 7 -> 99909
        [] x = 8 -> 99966
        [] x = 9 -> 99988
        [] x = 10 -> 99995
        [] x = 11 -> 99998
        [] x = 12 -> 99999
        [] OTHER -> 99999,
      100000)

RECURSIVE SumTo(_, _)
SumTo(f, k) == IF k = 0 THEN 0 ELSE f[k] + SumTo(f, k - 1)

Dot(vec1, vec2) == SumTo([i \in 1..Len(vec1) |-> vec1[i] * vec2[i]], Len(vec1))

\* Mutation: no length check; a component vec2 does not have counts as 0.
cosineSimilarityPads(vec1, vec2) ==
  LET padded == [i \in 1..Len(vec1) |-> IF i <= Len(vec2) THEN vec2[i] ELSE 0]
      dotProduct == Dot(vec1, padded)
      denominator == ISqrt(Dot(vec1, vec1)) * ISqrt(Dot(padded, padded))
  IN  IF denominator = 0 THEN Rat(0, 1) ELSE Rat(dotProduct, denominator)

cosineSimilarity(vec1, vec2) ==
  IF Len(vec1) # Len(vec2) \/ Len(vec1) = 0
    THEN Rat(0, 1)
    ELSE LET dotProduct == Dot(vec1, vec2)
             denominator == ISqrt(Dot(vec1, vec1)) * ISqrt(Dot(vec2, vec2))
         IN  IF denominator = 0 THEN Rat(0, 1) ELSE Rat(dotProduct, denominator)

\* Minimum of start and the values of the finite set S of rationals.
RMinOf(S, start) ==
  IF \E x \in S : RLess(x, start)
    THEN CHOOSE x \in S : \A y \in S : ~RLess(y, x)
    ELSE start

RMaxOf(S, start) ==
  IF \E x \in S : RLess(start, x)
    THEN CHOOSE x \in S : \A y \in S : ~RLess(x, y)
    ELSE start

\* Mutation: every pair of the chunk is compared, not the last WINDOW_SIZE.
getMinSimilarityWholeChunk(embs) ==
  IF Len(embs) < 2
    THEN Rat(1, 1)
    ELSE RMinOf({ cosineSimilarity(embs[i], embs[j]) :
                    <<i, j>> \in { p \in (1..Len(embs)) \X (1..Len(embs)) : p[1] < p[2] } },
                Rat(1, 1))

getMinSimilarity(embs) ==
  IF Len(embs) < 2
    THEN Rat(1, 1)
    ELSE LET startIdx == IF Len(embs) - WINDOW_SIZE > 0
                           THEN Len(embs) - WINDOW_SIZE ELSE 0
             windowEmbeddings == SubSeq(embs, startIdx + 1, Len(embs))
             m == Len(windowEmbeddings)
             sims == { cosineSimilarity(windowEmbeddings[i], windowEmbeddings[j]) :
                         <<i, j>> \in { p \in (1..m) \X (1..m) : p[1] < p[2] } }
         IN  RMinOf(sims, Rat(1, 1))

getMaxSimilarity(embedding, chunkEmbeddings) ==
  RMaxOf({ cosineSimilarity(embedding, chunkEmbeddings[k]) :
             k \in 1..Len(chunkEmbeddings) }, Rat(-1, 1))

calculateThreshold(minSim, chunkSize) ==
  LET sigmoidValue == sigmoid(chunkSize)
      dynamicThreshold == RMul(RMul(cScale, minSim), sigmoidValue)
  IN  RMax(dynamicThreshold, hardThreshold)

\* Mutation: the minimum similarity inside the chunk is compared with the
\* threshold instead of the maximum similarity to the new sentence.
shouldAddToChunkComparesMin(newEmbedding, chunkEmbeddings) ==
  LET minSim == getMinSimilarity(chunkEmbeddings)
      threshold == calculateThreshold(minSim, Len(chunkEmbeddings))
  IN  RLess(threshold, minSim)

shouldAddToChunk(newEmbedding, chunkEmbeddings) ==
  LET minSim == getMinSimilarity(chunkEmbeddings)
      maxSim == getMaxSimilarity(newEmbedding, chunkEmbeddings)
      threshold == calculateThreshold(minSim, Len(chunkEmbeddings))
  IN  RLess(threshold, maxSim)

\* One iteration of the for loop of groupSentences on the loop state
\* st = [groups, currentGroup, currentGroupEmbeddings].
\* !sentence || !embedding: the empty string, or no embedding at index i.
\* Mutation: an index without embedding is not skipped.
GroupStepMissingSentenceOnly(st, sentence, hasEmbedding) == Len(sentence) = 0

GroupStepMissing(st, sentence, hasEmbedding) == Len(sentence) = 0 \/ ~hasEmbedding

\* Mutation: the closed group is not pushed to groups.
StartNewGroupDropsGroup(st, sentence, embedding) ==
  [groups |-> st.groups,
   currentGroup |-> <<sentence>>,
   currentGroupEmbeddings |-> <<embedding>>]

StartNewGroup(st, sentence, embedding) ==
  [groups |-> Append(st.groups, st.currentGroup),
   currentGroup |-> <<sentence>>,
   currentGroupEmbeddings |-> <<embedding>>]

AddToGroup(st, sentence, embedding) ==
  [groups |-> st.groups,
   currentGroup |-> Append(st.currentGroup, sentence),
   currentGroupEmbeddings |-> Append(st.currentGroupEmbeddings, embedding)]

\* Mutation: no forced split at MAX_SENTENCES.
GroupStepNoForceSplit(st, sentence, embedding, hasEmbedding) ==
  IF GroupStepMissing(st, sentence, hasEmbedding) THEN st
  ELSE IF Len(st.currentGroup) = 0 THEN AddToGroup(st, sentence, embedding)
  ELSE IF Len(st.currentGroup) = 1 THEN
    LET similarity == cosineSimilarity(st.currentGroupEmbeddings[1], embedding)
    IN  IF RLess(hardThreshold, RMul(initConst, similarity))
          THEN AddToGroup(st, sentence, embedding)
          ELSE StartNewGroup(st, sentence, embedding)
  ELSE IF shouldAddToChunk(embedding, st.currentGroupEmbeddings)
    THEN AddToGroup(st, sentence, embedding)
    ELSE StartNewGroup(st, sentence, embedding)

GroupStep(st, sentence, embedding, hasEmbedding) ==
  IF GroupStepMissing(st, sentence, hasEmbedding) THEN st
  ELSE IF Len(st.currentGroup) = 0 THEN AddToGroup(st, sentence, embedding)
  ELSE IF Len(st.currentGroup) = 1 THEN
    LET similarity == cosineSimilarity(st.currentGroupEmbeddings[1], embedding)
    IN  IF RLess(hardThreshold, RMul(initConst, similarity))
          THEN AddToGroup(st, sentence, embedding)
          ELSE StartNewGroup(st, sentence, embedding)
  ELSE IF Len(st.currentGroup) >= MAX_SENTENCES
    THEN StartNewGroup(st, sentence, embedding)
  ELSE IF shouldAddToChunk(embedding, st.currentGroupEmbeddings)
    THEN AddToGroup(st, sentence, embedding)
    ELSE StartNewGroup(st, sentence, embedding)

RECURSIVE GroupLoop(_, _, _, _)
GroupLoop(st, sents, embs, i) ==
  IF i > Len(sents) THEN st
  ELSE GroupLoop(GroupStep(st, sents[i],
                           IF i <= Len(embs) THEN embs[i] ELSE <<>>,
                           i <= Len(embs)),
                 sents, embs, i + 1)

groupSentences(sents, embs) ==
  IF Len(sents) = 0 THEN <<>>
  ELSE IF Len(sents) = 1 THEN << <<sents[1]>> >>
  ELSE LET st == GroupLoop([groups |-> <<>>, currentGroup |-> <<>>,
                            currentGroupEmbeddings |-> <<>>], sents, embs, 1)
       IN  IF Len(st.currentGroup) > 0
             THEN Append(st.groups, st.currentGroup)
             ELSE st.groups

(***************************************************************************)
(* isGarbageChunk                                                          *)
(***************************************************************************)
\* A letter outside a-z and A-Z (e with an acute accent).
EAcute == "e-acute"

\* /[a-zA-Z0-9]/
Alnum == Upper \cup Lower \cup Digit

\* The characters of /^[\-=_.*#|~`@!%^&*()\[\]{}\\/<>:+\s]+$/
Decoration ==
  {"-", "=", "_", ".", "*", "#", "|", "~", Backtick, "@", "!", "%", "^", "&",
   "(", ")", "[", "]", "{", "}", "\\", "/", "<", ">", ":", "+"} \cup Space

\* Math.max(...charCounts.values())
maxCharCount(s) ==
  SetMax({ Cardinality({ i \in 1..Len(s) : s[i] = c }) : c \in { s[i] : i \in 1..Len(s) } })

\* Mutation: the repetition test runs before the alphanumeric test.
isGarbageChunkRepetitionFirst(txt) ==
  LET trimmed == trim(txt)
  IN  IF Len(trimmed) = 0 THEN TRUE
      ELSE IF maxCharCount(trimmed) * 10 > 8 * Len(trimmed) THEN TRUE
      ELSE IF \E i \in 1..Len(trimmed) : trimmed[i] \in Alnum THEN FALSE
      ELSE \A i \in 1..Len(trimmed) : trimmed[i] \in Decoration

isGarbageChunk(txt) ==
  LET trimmed == trim(txt)
  IN  IF Len(trimmed) = 0 THEN TRUE
      ELSE IF \E i \in 1..Len(trimmed) : trimmed[i] \in Alnum THEN FALSE
      ELSE IF \A i \in 1..Len(trimmed) : trimmed[i] \in Decoration THEN TRUE
      \* maxCount / trimmed.length > 0.8
      ELSE IF maxCharCount(trimmed) * 10 > 8 * Len(trimmed) THEN TRUE
      ELSE FALSE

(***************************************************************************)
(* Harness of isGarbageChunk: the text is drawn in Init, one call.         *)
(***************************************************************************)
MaxChunkChars == 6

RunLength == 200

GarbageAlphabet == {"a", "7", "-", ",", " ", EAcute}

\* Characters that are neither letters nor digits.
Symbols == {"-", "=", ",", "$", "*"}

SymbolRun(c, n) == [i \in 1..n |-> c]

GarbageInputs ==
  UNION { [1..m -> GarbageAlphabet] : m \in 0..MaxChunkChars }
    \cup { SymbolRun(c, n) : <<c, n>> \in Symbols \X {4, RunLength} }

GarbageInit ==
  /\ phase = "input"
  /\ garbageText \in GarbageInputs
  /\ garbageResult = FALSE
  /\ ChunkIdle /\ SplitIdle /\ BoostIdle /\ DbIdle /\ GroupingIdle /\ ChunkTextIdle /\ IngestIdle /\ ServerIdle

IsGarbageChunk ==
  /\ phase = "input"
  /\ garbageResult' = isGarbageChunk(garbageText)
  /\ phase' = "done"
  /\ UNCHANGED <<garbageText, chunkVars, splitVars, boostVars, dbVars, groupingVars, chunkTextVars, ingestVars, serverVars>>

SpecGarbage == GarbageInit /\ [][IsGarbageChunk]_vars

HasCharIn(s, C) == \E i \in 1..Len(s) : s[i] \in C

MaxSentences == 3

MaxRun == 17

\* Sentence texts as splitIntoSentences returns them: never empty.
SentencePool == { <<"s">>, <<"t">> }

\* Embedding vectors; every squared norm is a perfect square.  <<0, 0>> has
\* norm zero, <<1>> has another dimension and <<>> has none.
EmbeddingPool == { <<1, 0>>, <<0, 1>>, <<3, 4>>, <<-1, 0>>, <<0, 0>>, <<1>>, <<>> }

\* Configurations the chunker is constructed with: the default one, and
\* the default one with the smallest hardThreshold that is not negative.
ChunkerConfigs ==
  { DEFAULT_CHUNKER_CONFIG,
    [DEFAULT_CHUNKER_CONFIG EXCEPT !.hardThreshold = [n |-> 0, d |-> 1]] }

SeqsUpTo(S, k) == UNION { [1..m -> S] : m \in 0..k }

\* A long run of near-identical sentences, longer than MAX_SENTENCES.
RunInputs ==
  { [s |-> [i \in 1..m |-> IF i % 2 = 0 THEN <<"s">> ELSE <<"t">>],
     e |-> [i \in 1..m |-> IF i = brk THEN <<0, 1>> ELSE <<1, 0>>]] :
      <<m, brk>> \in ((MAX_SENTENCES + 1)..MaxRun) \X {0, 3, 16} }

\* m sentences of one embedding followed by n sentences of an orthogonal
\* one, also with blocks longer than MAX_SENTENCES.
MaxBlock == 16

UnitVectors == { <<1, 0>>, <<0, 1>>, <<-1, 0>> }

OrthogonalPairs == { p \in UnitVectors \X UnitVectors : Dot(p[1], p[2]) = 0 }

BlockEmbeddings(m, n, A, B) == [i \in 1..(m + n) |-> IF i <= m THEN A ELSE B]

BlockInputs ==
  { [s |-> [i \in 1..(m + n) |-> IF i <= m THEN <<"s">> ELSE <<"t">>],
     e |-> BlockEmbeddings(m, n, p[1], p[2])] :
      <<m, n, p>> \in (1..MaxBlock) \X (1..MaxBlock) \X OrthogonalPairs }

\* The embedder's answer has one vector per sentence, or stops short.
ShortInputs ==
  { [s |-> p[1], e |-> p[2]] :
      p \in { q \in SeqsUpTo(SentencePool, MaxSentences)
                      \X SeqsUpTo(EmbeddingPool, MaxSentences) :
                Len(q[2]) <= Len(q[1]) } }

\* A group grown longer than WINDOW_SIZE whose first member is the least
\* similar one, followed by a candidate of middling similarity.
WindowInputs ==
  { [s |-> [i \in 1..(k + 2) |-> IF i % 2 = 0 THEN <<"s">> ELSE <<"t">>],
     e |-> [i \in 1..(k + 2) |-> IF i = 1 THEN <<3, 4>>
                                 ELSE IF i = k + 2 THEN last ELSE <<0, 1>>]] :
      <<k, last>> \in (4..6) \X { <<-3, 4>>, <<4, 3>>, <<0, 1>>, <<1, 0>> } }

ChunkInputs == ShortInputs \cup RunInputs \cup BlockInputs \cup WindowInputs

ChunkInit ==
  /\ phase = "input"
  /\ \E inp \in ChunkInputs : sentences = inp.s /\ embeddings = inp.e
  /\ config \in (IF [s |-> sentences, e |-> embeddings] \in ShortInputs
                   THEN ChunkerConfigs ELSE {DEFAULT_CHUNKER_CONFIG})
  /\ sentenceGroups = <<>>
  /\ SplitIdle /\ GarbageIdle /\ BoostIdle /\ DbIdle /\ GroupingIdle /\ ChunkTextIdle /\ IngestIdle /\ ServerIdle

GroupSentences ==
  /\ phase = "input"
  /\ sentenceGroups' = groupSentences(sentences, embeddings)
  /\ phase' = "done"
  /\ UNCHANGED <<sentences, embeddings, config, splitVars, garbageVars, boostVars, dbVars, groupingVars, chunkTextVars, ingestVars, serverVars>>

SpecChunk == ChunkInit /\ [][GroupSentences]_vars

(***************************************************************************)
(* C1: given one embedding vector per sentence, the groups returned by     *)
(* groupSentences are non-empty runs of consecutive sentences whose        *)
(* concatenation, in order, is exactly the input sentence list.            *)
(***************************************************************************)
RECURSIVE Flatten(_)
Flatten(gs) == IF gs = <<>> THEN <<>> ELSE Head(gs) \o Flatten(Tail(gs))

C1_GroupsPartitionSentences ==
  (phase = "done" /\ Len(embeddings) = Len(sentences)) =>
     /\ Flatten(sentenceGroups) = sentences
     /\ \A g \in 1..Len(sentenceGroups) : Len(sentenceGroups[g]) >= 1

C1_Witness ==
  /\ phase = "done"
  /\ Len(sentences) = 4
  /\ Len(embeddings) = 4
  /\ Len(sentenceGroups) = 2
  /\ Len(sentenceGroups[1]) = 3

(***************************************************************************)
(* C12: with the default configuration, m sentences of a unit vector A     *)
(* followed by n sentences of an orthogonal unit vector B, 1 <= m, n <=    *)
(* MAX_SENTENCES, are grouped into exactly two groups: the m A-sentences   *)
(* and the n B-sentences.                                                  *)
(***************************************************************************)
C12_TwoBlocksTwoGroups ==
  (/\ phase = "done" /\ Len(embeddings) >= 2 /\ Len(sentences) = Len(embeddings)
   /\ config = DEFAULT_CHUNKER_CONFIG) =>
    LET A == embeddings[1]
        B == embeddings[Len(embeddings)]
        m == Cardinality({ i \in 1..Len(embeddings) : embeddings[i] = A })
        n == Len(embeddings) - m
    IN  (/\ <<A, B>> \in OrthogonalPairs
         /\ m <= MAX_SENTENCES /\ n <= MAX_SENTENCES
         /\ embeddings = BlockEmbeddings(m, n, A, B)) =>
           sentenceGroups = <<SubSeq(sentences, 1, m), SubSeq(sentences, m + 1, m + n)>>

\* Embeddings [A, A, A, B, B] give the groups [A, A, A] and [B, B].
C12_Witness ==
  /\ phase = "done"
  /\ config = DEFAULT_CHUNKER_CONFIG
  /\ embeddings = BlockEmbeddings(3, 2, <<1, 0>>, <<0, 1>>)
  /\ sentences = << <<"s">>, <<"s">>, <<"s">>, <<"t">>, <<"t">> >>
  /\ sentenceGroups = << << <<"s">>, <<"s">>, <<"s">> >>, << <<"t">>, <<"t">> >> >>

(***************************************************************************)
(* C18: the cosine similarity of two vectors of different length, or of    *)
(* which one is empty or has norm zero, is 0; groupSentences returns, with *)
(* every sentence in a group; and, hardThreshold being 0 or more, a        *)
(* sentence whose vector is empty, has norm zero or differs in length from *)
(* every vector of the current group is the first of a group.              *)
(***************************************************************************)
\* The index of the first sentence of group g.
GroupStart(gs, g) == 1 + Len(Flatten(SubSeq(gs, 1, g - 1)))

\* The first index of the group sentence i would join: that of sentence i - 1.
CurrentGroupStart(gs, i) ==
  LET starts == { GroupStart(gs, g) : g \in 1..Len(gs) }
  IN  CHOOSE st \in starts : st <= i - 1 /\ \A o \in starts : o <= i - 1 => o <= st

Degenerate(vec1, vec2) ==
  \/ Len(vec1) # Len(vec2)
  \/ Len(vec1) = 0
  \/ Dot(vec1, vec1) = 0
  \/ Dot(vec2, vec2) = 0

C18_MalformedVectorStartsGroup ==
  (phase = "done" /\ Len(embeddings) = Len(sentences)) =>
    /\ \A i, j \in 1..Len(embeddings) :
         Degenerate(embeddings[i], embeddings[j]) =>
           cosineSimilarity(embeddings[i], embeddings[j]) = Rat(0, 1)
    /\ Flatten(sentenceGroups) = sentences
    /\ \A i \in 2..Len(embeddings) :
         (\A j \in CurrentGroupStart(sentenceGroups, i)..(i - 1) :
             \/ Len(embeddings[i]) # Len(embeddings[j])
             \/ Len(embeddings[i]) = 0
             \/ Dot(embeddings[i], embeddings[i]) = 0)
           => \E g \in 1..Len(sentenceGroups) : GroupStart(sentenceGroups, g) = i

\* hardThreshold is 0; after two equal vectors, which are one group, comes
\* a vector of another length: it is the first of the second group.
C18_Witness ==
  /\ phase = "done"
  /\ config.hardThreshold = Rat(0, 1)
  /\ embeddings = << <<1, 0>>, <<1, 0>>, <<1>> >>
  /\ Len(sentenceGroups) = 2
  /\ Len(sentenceGroups[1]) = 2

(***************************************************************************)
(* C24: a sentence joins the group of the sentence before it exactly when  *)
(* that group has one member and initConst * cos(member, candidate) >      *)
(* hardThreshold, or has 2 to 14 members and maxSim > max(c * minSim *     *)
(* sigmoid(size), hardThreshold), maxSim being the largest similarity of   *)
(* the candidate to a member and minSim the smallest similarity between    *)
(* two of the last 5 members; otherwise it is the first of a new group.    *)
(***************************************************************************)
\* The similarities the claim speaks of, for the members first..last of
\* embeddings and the candidate at last + 1.
ClaimedMaxSim(first, last) ==
  LET sims == { cosineSimilarity(embeddings[last + 1], embeddings[j]) : j \in first..last }
  IN  CHOOSE x \in sims : \A y \in sims : RLeq(y, x)

ClaimedMinSim(first, last) ==
  LET from == IF last - 4 > first THEN last - 4 ELSE first
      sims == { cosineSimilarity(embeddings[i], embeddings[j]) :
                  <<i, j>> \in { p \in (from..last) \X (from..last) : p[1] < p[2] } }
  IN  CHOOSE x \in sims : \A y \in sims : RLeq(x, y)

ClaimedJoins(first, last) ==
  LET size == last - first + 1
  IN  \/ /\ size = 1
         /\ RLess(config.hardThreshold,
                  RMul(config.initConst,
                       cosineSimilarity(embeddings[first], embeddings[last + 1])))
      \/ /\ size >= 2 /\ size <= 14
         /\ RLess(RMax(RMul(RMul(config.c, ClaimedMinSim(first, last)), sigmoid(size)),
                       config.hardThreshold),
                  ClaimedMaxSim(first, last))

C24_JoinsIffAboveThreshold ==
  (phase = "done" /\ Len(embeddings) = Len(sentences)) =>
    \A i \in 2..Len(embeddings) :
      LET first == CurrentGroupStart(sentenceGroups, i)
          starts == \E g \in 1..Len(sentenceGroups) : GroupStart(sentenceGroups, g) = i
      IN  ~starts <=> ClaimedJoins(first, i - 1)

\* The candidate is similar enough to the group as a whole, but not to its
\* last five members, all alike: it starts the second group.
C24_Witness ==
  /\ phase = "done"
  /\ Len(embeddings) = 8
  /\ embeddings[1] = <<3, 4>>
  /\ embeddings[8] = <<-3, 4>>
  /\ \A i \in 2..7 : embeddings[i] = <<0, 1>>
  /\ Len(sentenceGroups) = 2
  /\ Len(sentenceGroups[1]) = 7

(***************************************************************************)
(* C25: no group returned by groupSentences has more than MAX_SENTENCES    *)
(* (15) sentences: the sentence that follows the fifteenth member of a     *)
(* group is the first of a new group, however similar it is.               *)
(***************************************************************************)
C25_GroupsAtMostMaxSentences ==
  phase = "done" =>
    /\ \A g \in 1..Len(sentenceGroups) : Len(sentenceGroups[g]) <= MAX_SENTENCES
    /\ \A g \in 1..(Len(sentenceGroups) - 1) :
         Len(sentenceGroups[g]) = MAX_SENTENCES =>
           Len(sentenceGroups[g + 1]) >= 1

\* Sixteen sentences of one vector: a group of fifteen, then the sixteenth.
C25_Witness ==
  /\ phase = "done"
  /\ Len(sentences) = MAX_SENTENCES + 1
  /\ \A i \in 1..Len(embeddings) : embeddings[i] = <<1, 0>>
  /\ Len(sentenceGroups) = 2
  /\ Len(sentenceGroups[1]) = MAX_SENTENCES
  /\ sentenceGroups[2] = <<sentences[MAX_SENTENCES + 1]>>

(***************************************************************************)
(* C28: when the embeddings array is shorter than the list of two or more  *)
(* sentences, groupSentences returns; the sentences without a vector are   *)
(* in no group, and the groups hold the sentences that have one, in their  *)
(* original order.                                                         *)
(***************************************************************************)
C28_SentencesWithoutVectorOmitted ==
  (phase = "done" /\ Len(sentences) >= 2 /\ Len(embeddings) < Len(sentences)) =>
    /\ Flatten(sentenceGroups) = SubSeq(sentences, 1, Len(embeddings))
    /\ \A g \in 1..Len(sentenceGroups) : Len(sentenceGroups[g]) >= 1

\* Three sentences, two vectors: the third sentence is in no group.
C28_Witness ==
  /\ phase = "done"
  /\ sentences = << <<"s">>, <<"t">>, <<"s">> >>
  /\ embeddings = << <<1, 0>>, <<0, 1>> >>
  /\ sentenceGroups = << << <<"s">> >>, << <<"t">> >> >>

(***************************************************************************)
(* C26: for the c of the configuration and one value of minSim with        *)
(* c * minSim >= 0, the threshold max(c * minSim * sigmoid(size),          *)
(* hardThreshold) is never lower for a larger group than for a smaller     *)
(* one (sigmoid rises with the size, so the bar rises with it), and it is  *)
(* never below hardThreshold.                                              *)
(***************************************************************************)
\* The values of minSim shouldAddToChunk computed while group g grew: one
\* for each size n from 2 to the length of the group.
MinSimAt(g, n) ==
  LET first == GroupStart(sentenceGroups, g)
  IN  getMinSimilarity(SubSeq(embeddings, first, first + n - 1))

\* a <= b for two thresholds, by their continued fractions: the products
\* of a numerator and a denominator of two thresholds can exceed 2^31.
RECURSIVE ThresholdLeq(_, _)
ThresholdLeq(a, b) ==
  LET qa == a.n \div a.d
      qb == b.n \div b.d
      ra == a.n % a.d
      rb == b.n % b.d
  IN  IF qa # qb THEN qa < qb
      ELSE IF ra = 0 THEN TRUE
      ELSE IF rb = 0 THEN FALSE
      ELSE ThresholdLeq([n |-> b.d, d |-> rb], [n |-> a.d, d |-> ra])

\* A group, a size n it had when a threshold was computed, and a larger
\* size: the next one, or the largest a group can have.
ThresholdCases ==
  { <<g, n, m>> \in (1..Len(sentenceGroups)) \X (2..MAX_SENTENCES) \X (2..MAX_SENTENCES) :
      n <= Len(sentenceGroups[g]) /\ n < m /\ m \in {n + 1, MAX_SENTENCES} }

C26_ThresholdRisesWithSize ==
  (phase = "done" /\ Len(embeddings) = Len(sentences)) =>
    \A cs \in ThresholdCases :
      LET minSim == MinSimAt(cs[1], cs[2])
      IN  /\ RLeq(config.hardThreshold, calculateThreshold(minSim, cs[2]))
          /\ RLeq(Rat(0, 1), RMul(config.c, minSim)) =>
               ThresholdLeq(calculateThreshold(minSim, cs[2]), calculateThreshold(minSim, cs[3]))

\* The statement as first made: never higher for the larger group.
C26_ThresholdFallsWithSize ==
  (phase = "done" /\ Len(embeddings) = Len(sentences)) =>
    \A cs \in ThresholdCases :
      LET minSim == MinSimAt(cs[1], cs[2])
      IN  /\ RLeq(config.hardThreshold, calculateThreshold(minSim, cs[2]))
          /\ ThresholdLeq(calculateThreshold(minSim, cs[3]), calculateThreshold(minSim, cs[2]))

\* Three identical vectors in one group under the default configuration:
\* minSim is 1 and the threshold is higher at size 3 than at size 2.
C26_Witness ==
  /\ phase = "done"
  /\ config = DEFAULT_CHUNKER_CONFIG
  /\ embeddings = << <<1, 0>>, <<1, 0>>, <<1, 0>> >>
  /\ Len(sentenceGroups) = 1
  /\ MinSimAt(1, 2) = Rat(1, 1)
  /\ ~ThresholdLeq(calculateThreshold(Rat(1, 1), 3), calculateThreshold(Rat(1, 1), 2))
  /\ RLess(config.hardThreshold, calculateThreshold(Rat(1, 1), 2))

(***************************************************************************)
(* SemanticChunker.chunkText                                               *)
(***************************************************************************)
\* group.join(" ")
RECURSIVE join(_)
join(group) ==
  IF Len(group) = 0 THEN <<>>
  ELSE IF Len(group) = 1 THEN group[1]
  ELSE group[1] \o <<" ">> \o join(Tail(group))

\* Mutation: chunkIndex counts the discarded groups too.
pushChunkCountsAll(chunks, group, groupsSeen, minLength, firstIndex) ==
  LET chunkText == join(group)
  IN  IF Len(chunkText) >= minLength /\ ~isGarbageChunk(chunkText)
      THEN Append(chunks, [text |-> chunkText, index |-> firstIndex + groupsSeen])
      ELSE chunks

\* The body of the loop over sentenceGroups: chunkIndex is the number of
\* chunks pushed so far (above firstIndex, its value before the loop).
pushChunk(chunks, group, groupsSeen, minLength, firstIndex) ==
  LET chunkText == join(group)
  IN  IF Len(chunkText) >= minLength /\ ~isGarbageChunk(chunkText)
      THEN Append(chunks, [text |-> chunkText, index |-> firstIndex + Len(chunks)])
      ELSE chunks

RECURSIVE toChunks(_, _, _, _)
toChunks(sentenceGroups0, n, minLength, firstIndex) ==
  IF n = 0 THEN <<>>
  ELSE pushChunk(toChunks(sentenceGroups0, n - 1, minLength, firstIndex),
                 sentenceGroups0[n], n - 1, minLength, firstIndex)

(***************************************************************************)
(* Harness of chunkText: one text, one configuration and one answer of the *)
(* embedder per run; two SemanticChunker instances, each with one call,    *)
(* interleaved at the await of embedBatch.                                 *)
(***************************************************************************)
MaxTextSentences == 2

Instances == { "c1", "c2" }

Repeat(c, n) == [i \in 1..n |-> c]

\* Sentences of 25 and 24 characters and a rule of 6 characters.
TextPieces ==
  { <<"A">> \o Repeat("a", 23) \o <<".">>,
    <<"B">> \o Repeat("b", 22) \o <<".">>,
    Repeat("=", 5) \o <<".">> }

ChunkTexts ==
  { <<>>, <<" ">>, <<" ", "\n">> } \cup
  { join(ps) : ps \in SeqsUpTo(TextPieces, MaxTextSentences) \ { <<>> } }

\* config.minChunkLength: the default and an override.
ChunkLengths == { minChunkLength, 6 }

ChunkEmbeddingPool == { <<1, 0>>, <<0, 1>> }

NoChunkCall ==
  [pc |-> "idle", sentences |-> <<>>, embedCalls |-> <<>>,
   sentenceGroups |-> <<>>, chunks |-> <<>>]

ChunkTextInit ==
  /\ phase = "chunkText"
  /\ \E txt \in ChunkTexts, len \in ChunkLengths :
       \E embs \in [1..Len(splitIntoSentences(txt)) -> ChunkEmbeddingPool] :
          chunkerInput = [text |-> txt, minChunkLength |-> len, embeddings |-> embs]
  /\ chunkCalls = [c \in Instances |-> NoChunkCall]
  /\ ChunkIdle /\ SplitIdle /\ GarbageIdle /\ BoostIdle /\ DbIdle /\ GroupingIdle /\ IngestIdle /\ ServerIdle

chunkTextUnchanged ==
  <<phase, chunkerInput, chunkVars, splitVars, garbageVars, boostVars, dbVars, groupingVars, ingestVars, serverVars>>

\* chunkText(text, embedder) up to the await of embedBatch.
ChunkText(c) ==
  /\ chunkCalls[c].pc = "idle"
  /\ LET txt == chunkerInput.text
         sents == splitIntoSentences(txt)
     IN  chunkCalls' =
           [chunkCalls EXCEPT ![c] =
              IF Len(txt) = 0 \/ Len(trim(txt)) = 0 THEN [@ EXCEPT !.pc = "done"]
              ELSE IF Len(sents) = 0 THEN [@ EXCEPT !.pc = "done"]
              ELSE [@ EXCEPT !.pc = "embedBatch", !.sentences = sents,
                             !.embedCalls = Append(@, sents)]]
  /\ UNCHANGED chunkTextUnchanged

\* Mutation: chunkIndex is shared by the instances and goes on from the
\* chunks of the other calls.
EmbedBatchResolvedSharedIndex(c) ==
  /\ chunkCalls[c].pc = "embedBatch"
  /\ LET groups == groupSentences(chunkCalls[c].sentences, chunkerInput.embeddings)
         others == Len(chunkCalls[CHOOSE o \in Instances : o # c].chunks)
     IN  chunkCalls' =
           [chunkCalls EXCEPT ![c] =
              [@ EXCEPT !.pc = "done", !.sentenceGroups = groups,
                        !.chunks = toChunks(groups, Len(groups),
                                            chunkerInput.minChunkLength, others)]]
  /\ UNCHANGED chunkTextUnchanged

\* embedBatch resolves: the sentences are grouped, the groups filtered and
\* numbered, the chunks returned.
EmbedBatchResolved(c) ==
  /\ chunkCalls[c].pc = "embedBatch"
  /\ LET groups == groupSentences(chunkCalls[c].sentences, chunkerInput.embeddings)
     IN  chunkCalls' =
           [chunkCalls EXCEPT ![c] =
              [@ EXCEPT !.pc = "done", !.sentenceGroups = groups,
                        !.chunks = toChunks(groups, Len(groups),
                                            chunkerInput.minChunkLength, 0)]]
  /\ UNCHANGED chunkTextUnchanged

\* Mutation: a rejected embedBatch is called once more.
EmbedBatchRejectedRetries(c) ==
  /\ chunkCalls[c].pc = "embedBatch"
  /\ chunkCalls' =
       [chunkCalls EXCEPT ![c] =
          IF Len(@.embedCalls) < 2
          THEN [@ EXCEPT !.embedCalls = Append(@, chunkCalls[c].sentences)]
          ELSE [@ EXCEPT !.pc = "failed"]]
  /\ UNCHANGED chunkTextUnchanged

\* embedBatch rejects: chunkText has no try, its promise rejects.
EmbedBatchRejected(c) ==
  /\ chunkCalls[c].pc = "embedBatch"
  /\ chunkCalls' = [chunkCalls EXCEPT ![c] = [@ EXCEPT !.pc = "failed"]]
  /\ UNCHANGED chunkTextUnchanged

ChunkTextNext ==
  \E c \in Instances :
    \/ ChunkText(c)
    \/ EmbedBatchResolved(c)
    \/ EmbedBatchRejected(c)

SpecChunkText == ChunkTextInit /\ [][ChunkTextNext]_vars

\* The groups of a returned call that pass the filter, as positions.
KeptGroups(call) ==
  { g \in 1..Len(call.sentenceGroups) :
      /\ Len(join(call.sentenceGroups[g])) >= chunkerInput.minChunkLength
      /\ ~isGarbageChunk(join(call.sentenceGroups[g])) }

\* The k-th smallest element of a set of numbers.
RECURSIVE Nth(_, _)
Nth(S, k) == IF k = 1 THEN SetMin(S) ELSE Nth(S \ {SetMin(S)}, k - 1)

(***************************************************************************)
(* C15: a chunkText call calls embedBatch at most once: not at all for an  *)
(* empty or blank text or a text without sentences, and then it returns no *)
(* chunk; otherwise once, with all sentences in their order.  When the     *)
(* call of embedBatch fails, chunkText fails: embedBatch is not called     *)
(* again and no chunk is returned.                                         *)
(***************************************************************************)
C15_EmbedBatchAtMostOnce ==
  /\ [](chunkCalls # <<>> =>
          \A c \in Instances :
            LET call == chunkCalls[c]
            IN  /\ Len(call.embedCalls) <= 1
                /\ (Len(trim(chunkerInput.text)) = 0 \/ Len(chunkerInput.embeddings) = 0) =>
                      (call.embedCalls = <<>> /\ call.chunks = <<>>
                        /\ call.pc \in {"idle", "done"})
                /\ (call.pc # "idle" /\ Len(chunkerInput.embeddings) > 0) =>
                      /\ Len(call.embedCalls) = 1
                      /\ Len(call.embedCalls[1]) = Len(chunkerInput.embeddings)
                      /\ call.embedCalls[1] = call.sentences
                      /\ chunkerInput.text = join(call.sentences)
                /\ call.pc = "failed" => call.chunks = <<>>)
  /\ [][chunkCalls # <<>> =>
          \A c \in Instances :
            chunkCalls[c].pc = "failed" => chunkCalls'[c] = chunkCalls[c]]_vars

\* One call failed after its single embedBatch call, the other returned
\* chunks from its own.
C15_Witness ==
  /\ chunkCalls # <<>>
  /\ chunkCalls["c1"].pc = "failed"
  /\ Len(chunkCalls["c1"].embedCalls) = 1
  /\ Len(chunkCalls["c1"].embedCalls[1]) = 2
  /\ chunkCalls["c2"].pc = "done"
  /\ Len(chunkCalls["c2"].chunks) >= 1

(***************************************************************************)
(* C16: chunkText returns one chunk for each sentence group whose text     *)
(* (the sentences joined by one space) has at least minChunkLength         *)
(* characters and is not garbage, and none for the others; the chunks are  *)
(* in the order of the groups and the k-th has index k - 1.                *)
(***************************************************************************)
C16_ChunksAreKeptGroups ==
  chunkCalls # <<>> =>
    \A c \in Instances :
      chunkCalls[c].pc = "done" =>
        LET call == chunkCalls[c]
            kept == KeptGroups(call)
        IN  /\ Len(call.chunks) = Cardinality(kept)
            /\ \A k \in 1..Len(call.chunks) :
                 /\ call.chunks[k].index = k - 1
                 /\ call.chunks[k].text = join(call.sentenceGroups[Nth(kept, k)])

\* The first group is discarded as garbage, the second is chunk 0.
C16_Witness ==
  /\ chunkCalls # <<>>
  /\ chunkCalls["c1"].pc = "done"
  /\ Len(chunkCalls["c1"].sentenceGroups) = 2
  /\ KeptGroups(chunkCalls["c1"]) = {2}
  /\ Len(join(chunkCalls["c1"].sentenceGroups[1])) >= chunkerInput.minChunkLength
  /\ chunkCalls["c1"].chunks =
       <<[text |-> join(chunkCalls["c1"].sentenceGroups[2]), index |-> 0]>>

Candidate(f, c, d) == [filePath |-> f, chunkIndex |-> c, distance |-> d]

FtsRow(f, c, sc) == [filePath |-> f, chunkIndex |-> c, score |-> sc]

\* `${filePath}:${chunkIndex}`
keyOf(r) == <<r.filePath, r.chunkIndex>>

\* The first loop: the largest raw score, 0 when there is none above 0.
maxBm25Score(ftsResults) ==
  RMaxOf({ ftsResults[i].score : i \in 1..Len(ftsResults) }, Rat(0, 1))

\* Mutation: the raw score is taken as it is.
normalizedScoreRaw(rawScore, maxScore) ==
  IF RLess(Rat(0, 1), maxScore) THEN rawScore ELSE Rat(0, 1)

\* maxBm25Score > 0 ? rawScore / maxBm25Score : 0
normalizedScore(rawScore, maxScore) ==
  IF RLess(Rat(0, 1), maxScore) THEN RDiv(rawScore, maxScore) ELSE Rat(0, 1)

\* ftsScoreMap.get(key) ?? 0: the row set last under the key wins.
keywordScoreOf(key, ftsResults) ==
  LET hits == { i \in 1..Len(ftsResults) : keyOf(ftsResults[i]) = key }
  IN  IF hits = {} THEN Rat(0, 1)
      ELSE normalizedScore(ftsResults[SetMax(hits)].score, maxBm25Score(ftsResults))

\* Mutation: the boost multiplies the distance instead of dividing it.
boostedDistanceMultiplies(distance, keywordScore, weight) ==
  RMul(distance, RAdd(Rat(1, 1), RMul(keywordScore, weight)))

\* distance / (1 + keywordScore * weight)
boostedDistance(distance, keywordScore, weight) ==
  RDiv(distance, RAdd(Rat(1, 1), RMul(keywordScore, weight)))

\* Mutation: an element goes before the elements it compares equal to.
insertSortedBeforeEquals(sorted, r) ==
  LET k == Cardinality({ i \in 1..Len(sorted) : RLess(sorted[i].distance, r.distance) })
  IN  SubSeq(sorted, 1, k) \o <<r>> \o SubSeq(sorted, k + 1, Len(sorted))

\* Array.prototype.sort((a, b) => a._distance - b._distance) is stable: an
\* element goes after every element that is not greater.
insertSorted(sorted, r) ==
  LET k == Cardinality({ i \in 1..Len(sorted) : RLeq(sorted[i].distance, r.distance) })
  IN  SubSeq(sorted, 1, k) \o <<r>> \o SubSeq(sorted, k + 1, Len(sorted))

RECURSIVE sortByDistance(_, _)
sortByDistance(rs, i) ==
  IF i = 0 THEN <<>> ELSE insertSorted(sortByDistance(rs, i - 1), rs[i])

applyKeywordBoost(vectorResults, ftsResults, weight) ==
  LET boosted == [i \in 1..Len(vectorResults) |->
                    Candidate(vectorResults[i].filePath, vectorResults[i].chunkIndex,
                              boostedDistance(vectorResults[i].distance,
                                              keywordScoreOf(keyOf(vectorResults[i]), ftsResults),
                                              weight))]
  IN  sortByDistance(boosted, Len(boosted))

(***************************************************************************)
(* Harness of applyKeywordBoost: the arguments are drawn in Init, one call.*)
(***************************************************************************)
MaxBoostDense == 2

MaxBoostFts == 2

\* The rows of the docs table: (filePath, chunkIndex).
Rows == { <<"a", 0>>, <<"a", 1>>, <<"b", 0>> }

\* Sequences without repetition over S, of length at most k.
DistinctSeqs(S, k) ==
  { q \in SeqsUpTo(S, k) : \A i, j \in 1..Len(q) : i # j => q[i] # q[j] }

BoostDistances == { Rat(0, 1), Rat(2, 1) }

BoostScores == { Rat(0, 1), Rat(1, 1), Rat(2, 1) }

\* Positive weights; setHybridSearchConfig sets no upper limit.
BoostWeights == { Rat(3, 5), Rat(1, 1) }

BoostDense ==
  UNION { { [i \in 1..Len(ks) |-> Candidate(ks[i][1], ks[i][2], ds[i])] :
              ds \in [1..Len(ks) -> BoostDistances] } :
          ks \in DistinctSeqs(Rows, MaxBoostDense) }

BoostFts ==
  UNION { { [i \in 1..Len(ks) |-> FtsRow(ks[i][1], ks[i][2], scs[i])] :
              scs \in [1..Len(ks) -> BoostScores] } :
          ks \in SeqsUpTo(Rows, MaxBoostFts) }

\* Dense [k1: 1.0, k2: 2.0], keyword [k1: 10, k2: 0], weight 0.6.
BoostExample ==
  [vectorResults |-> <<Candidate("a", 0, Rat(1, 1)), Candidate("a", 1, Rat(2, 1))>>,
   ftsResults |-> <<FtsRow("a", 0, Rat(10, 1)), FtsRow("a", 1, Rat(0, 1))>>,
   weight |-> Rat(6, 10)]

BoostInit ==
  /\ phase = "input"
  /\ boostArgs \in [vectorResults : BoostDense, ftsResults : BoostFts, weight : BoostWeights]
                      \cup {BoostExample}
  /\ boostedResults = <<>>
  /\ ChunkIdle /\ SplitIdle /\ GarbageIdle /\ DbIdle /\ GroupingIdle /\ ChunkTextIdle /\ IngestIdle /\ ServerIdle

ApplyKeywordBoost ==
  /\ phase = "input"
  /\ boostedResults' = applyKeywordBoost(boostArgs.vectorResults, boostArgs.ftsResults,
                                         boostArgs.weight)
  /\ phase' = "done"
  /\ UNCHANGED <<boostArgs, chunkVars, splitVars, garbageVars, dbVars, groupingVars, chunkTextVars, ingestVars, serverVars>>

SpecBoost == BoostInit /\ [][ApplyKeywordBoost]_vars

\* The normalized keyword score of a key as the claim defines it: the raw
\* score of its keyword row over the largest raw score, 0 without a row.
ClaimedK(key, fts) ==
  LET hits == { i \in 1..Len(fts) : keyOf(fts[i]) = key }
      top == CHOOSE m \in { fts[i].score : i \in 1..Len(fts) } :
                \A i \in 1..Len(fts) : RLeq(fts[i].score, m)
  IN  IF hits = {} \/ top = Rat(0, 1) THEN Rat(0, 1)
      ELSE RDiv(fts[SetMax(hits)].score, top)

InFts(key, fts) == \E i \in 1..Len(fts) : keyOf(fts[i]) = key

(***************************************************************************)
(* C7: for non-negative distances and scores and a positive weight w, the  *)
(* distance of every candidate after applyKeywordBoost is d / (1 + k * w)  *)
(* (k its normalized keyword score): never negative, never above d,        *)
(* exactly d / 2 for k = 1 and w = 1, exactly d for a candidate without a  *)
(* keyword row.                                                            *)
(***************************************************************************)
C7_BoostedDistance ==
  phase = "done" =>
     /\ Len(boostedResults) = Len(boostArgs.vectorResults)
     /\ \A i \in 1..Len(boostArgs.vectorResults) :
          LET v == boostArgs.vectorResults[i]
              w == boostArgs.weight
              k == ClaimedK(keyOf(v), boostArgs.ftsResults)
          IN  \E j \in 1..Len(boostedResults) :
                LET b == boostedResults[j]
                IN  /\ keyOf(b) = keyOf(v)
                    /\ RMul(b.distance, RAdd(Rat(1, 1), RMul(k, w))) = v.distance
                    /\ RLeq(Rat(0, 1), b.distance)
                    /\ RLeq(b.distance, v.distance)
                    /\ (k = Rat(1, 1) /\ w = Rat(1, 1)) => b.distance = RDiv(v.distance, Rat(2, 1))
                    /\ ~InFts(keyOf(v), boostArgs.ftsResults) => b.distance = v.distance

\* A candidate at distance 2 with the top keyword score and weight 1 comes
\* back at distance 1, next to a candidate without keyword row left at 2.
C7_Witness ==
  /\ phase = "done"
  /\ boostArgs.weight = Rat(1, 1)
  /\ Len(boostArgs.ftsResults) = 2
  /\ Len(boostArgs.vectorResults) = 2
  /\ \E i, j \in 1..Len(boostedResults) :
        /\ keyOf(boostedResults[i]) = <<"a", 0>>
        /\ boostedResults[i].distance = Rat(1, 1)
        /\ boostArgs.vectorResults[2] = Candidate("a", 0, Rat(2, 1))
        /\ ClaimedK(<<"a", 0>>, boostArgs.ftsResults) = Rat(1, 1)
        /\ keyOf(boostedResults[j]) = <<"b", 0>>
        /\ ~InFts(<<"b", 0>>, boostArgs.ftsResults)
        /\ boostedResults[j].distance = Rat(2, 1)

(***************************************************************************)
(* C13: applyKeywordBoost normalizes by the largest raw score of all       *)
(* keyword rows: the score of a row is raw / max, within [0, 1] for        *)
(* non-negative raw scores, 0 for every row when the maximum is 0, and 0   *)
(* for a dense candidate whose key has no keyword row, which keeps its     *)
(* distance.  Dense [k1: 1, k2: 2], keyword [k1: 10, k2: 0] and weight 0.6 *)
(* give k1: 0.625, k2: 2 in this order.                                    *)
(***************************************************************************)
C13_ScoresNormalizedByMax ==
  phase = "done" /\ boostArgs # <<>> =>
    LET fts == boostArgs.ftsResults
        dense == boostArgs.vectorResults
        top == CHOOSE t \in { fts[i].score : i \in 1..Len(fts) } \cup {Rat(0, 1)} :
                 \A i \in 1..Len(fts) : RLeq(fts[i].score, t)
    IN  /\ \A i \in 1..Len(fts) :
             LET k == normalizedScore(fts[i].score, maxBm25Score(fts))
             IN  /\ RMul(k, top) = fts[i].score
                 /\ RLeq(Rat(0, 1), k) /\ RLeq(k, Rat(1, 1))
                 /\ top = Rat(0, 1) => k = Rat(0, 1)
                 /\ (\A j \in (i + 1)..Len(fts) : keyOf(fts[j]) # keyOf(fts[i])) =>
                      keywordScoreOf(keyOf(fts[i]), fts) = k
        /\ \A i \in 1..Len(dense) :
             ~InFts(keyOf(dense[i]), fts) =>
               /\ keywordScoreOf(keyOf(dense[i]), fts) = Rat(0, 1)
               /\ \E j \in 1..Len(boostedResults) : boostedResults[j] = dense[i]
        /\ boostArgs = BoostExample =>
             boostedResults = <<Candidate("a", 0, Rat(625, 1000)), Candidate("a", 1, Rat(2, 1))>>

\* The example of the claim.
C13_Witness ==
  /\ phase = "done"
  /\ boostArgs = BoostExample
  /\ boostedResults = <<Candidate("a", 0, Rat(5, 8)), Candidate("a", 1, Rat(2, 1))>>

(***************************************************************************)
(* Relevance-gap truncation: applyGrouping (sentence-splitter.ts)          *)
(***************************************************************************)
\* Mutation: one standard deviation above the mean is a boundary.
GROUPING_BOUNDARY_ONE_STD == Rat(1, 1)

GROUPING_BOUNDARY_STD_MULTIPLIER == Rat(15, 10)

RSub(a, b) == Rat(a.n * b.d - b.n * a.d, a.d * b.d)

RECURSIVE RSum(_, _)
RSum(f, k) == IF k = 0 THEN Rat(0, 1) ELSE RAdd(f[k], RSum(f, k - 1))

\* gaps: { index: i + 1, gap: next._distance - current._distance }
gapsOf(results) ==
  [i \in 1..(Len(results) - 1) |->
     [index |-> i, gap |-> RSub(results[i + 1].distance, results[i].distance)]]

meanOf(gapValues) == RDiv(RSum(gapValues, Len(gapValues)), Rat(Len(gapValues), 1))

varianceOf(gapValues) ==
  LET mean == meanOf(gapValues)
      sq == [i \in 1..Len(gapValues) |->
               RMul(RSub(gapValues[i], mean), RSub(gapValues[i], mean))]
  IN  RDiv(RSum(sq, Len(sq)), Rat(Len(gapValues), 1))

\* g.gap > mean + GROUPING_BOUNDARY_STD_MULTIPLIER * Math.sqrt(variance),
\* decided without the square root: gap - mean is positive and its square
\* is above multiplier^2 * variance.
aboveThreshold(gap, gapValues) ==
  LET diff == RSub(gap, meanOf(gapValues))
  IN  /\ RLess(Rat(0, 1), diff)
      /\ RLess(RMul(RMul(GROUPING_BOUNDARY_STD_MULTIPLIER, GROUPING_BOUNDARY_STD_MULTIPLIER),
                    varianceOf(gapValues)),
               RMul(diff, diff))

\* The elements of a sequence that satisfy a test, in order.
RECURSIVE filterSeq(_, _, _)
filterSeq(q, Test(_), i) ==
  IF i > Len(q) THEN <<>>
  ELSE (IF Test(q[i]) THEN <<q[i]>> ELSE <<>>) \o filterSeq(q, Test, i + 1)

\* gaps.filter((g) => g.gap > threshold).map((g) => g.index)
boundariesOf(gaps) ==
  LET gapValues == [i \in 1..Len(gaps) |-> gaps[i].gap]
      IsBoundary(g) == aboveThreshold(g.gap, gapValues)
      kept == filterSeq(gaps, IsBoundary, 1)
  IN  [i \in 1..Len(kept) |-> kept[i].index]

\* Mutation: with a single boundary, mode "related" cuts there too.
cutoffAlwaysCuts(results, boundaries, mode) ==
  LET boundaryIndex == (IF mode = "similar" THEN 1 ELSE 2) - 1
  IN  IF boundaryIndex >= Len(boundaries)
      THEN SubSeq(results, 1, boundaries[1])
      ELSE SubSeq(results, 1, boundaries[boundaryIndex + 1])

\* The cutoff by mode (boundaries is not empty).
cutoff(results, boundaries, mode) ==
  LET boundaryIndex == (IF mode = "similar" THEN 1 ELSE 2) - 1
  IN  IF boundaryIndex >= Len(boundaries)
      THEN (IF mode = "related" THEN results ELSE SubSeq(results, 1, boundaries[1]))
      ELSE SubSeq(results, 1, boundaries[boundaryIndex + 1])

applyGrouping(results, mode) ==
  IF Len(results) <= 1 THEN results
  ELSE LET gaps == gapsOf(results)
           boundaries == boundariesOf(gaps)
       IN  IF Len(gaps) = 0 THEN results
           ELSE IF Len(boundaries) = 0 THEN results
           ELSE cutoff(results, boundaries, mode)

(***************************************************************************)
(* Harness of applyGrouping: lists in ascending order of distance.         *)
(***************************************************************************)
MaxResults == 8

\* The gaps between neighbours of the lists drawn.
GapValues == { 0, 1, 5 }

RECURSIVE distanceAt(_, _)
distanceAt(gs, i) == IF i = 1 THEN 0 ELSE distanceAt(gs, i - 1) + gs[i - 1]

\* The gaps of the short lists drawn in any order of distance.
AnyGapValues == { -5, -1, 0, 1, 5 }

GroupingLists ==
  { <<>> } \cup
  { [i \in 1..(Len(gs) + 1) |-> Candidate("a", i - 1, Rat(distanceAt(gs, i), 1))] :
      gs \in SeqsUpTo(GapValues, MaxResults - 1) \cup SeqsUpTo(AnyGapValues, 3) }

GroupingInit ==
  /\ phase = "input"
  /\ groupingArgs \in [results : GroupingLists, mode : {"similar", "related"}]
  /\ groupingResult = <<>>
  /\ ChunkIdle /\ SplitIdle /\ GarbageIdle /\ BoostIdle /\ DbIdle /\ ChunkTextIdle /\ IngestIdle /\ ServerIdle

ApplyGrouping ==
  /\ phase = "input"
  /\ groupingResult' = applyGrouping(groupingArgs.results, groupingArgs.mode)
  /\ phase' = "done"
  /\ UNCHANGED <<groupingArgs, chunkVars, splitVars, garbageVars, boostVars, dbVars, chunkTextVars, ingestVars, serverVars>>

SpecGrouping == GroupingInit /\ [][ApplyGrouping]_vars

\* The boundaries as the claim defines them, on integer distances ds: index
\* i is a boundary when the gap g before it exceeds mean + 1.5 * std of all
\* n gaps, that is n * g > S and 4 * n * (n * g - S)^2 > 9 * Sum (n * gj - S)^2
\* with S the sum of the gaps.
ClaimedBoundaries(ds) ==
  LET n == Len(ds) - 1
      g == [i \in 1..n |-> ds[i + 1] - ds[i]]
      S == SumTo(g, n)
      dev == [i \in 1..n |-> (n * g[i] - S) * (n * g[i] - S)]
  IN  { i \in 1..n : n * g[i] > S /\ 4 * n * dev[i] > 9 * SumTo(dev, n) }

(***************************************************************************)
(* C14: on a list in ascending order of distance applyGrouping returns a   *)
(* prefix, not empty unless the list is: the list itself when it has at    *)
(* most one element or no gap exceeds mean + 1.5 * (population standard    *)
(* deviation) of the gaps; otherwise mode "similar" keeps the elements     *)
(* before the first such gap, mode "related" the elements before the       *)
(* second one, or everything when there is only one.                       *)
(***************************************************************************)
C14_TruncateByGap ==
  (phase = "done" /\ groupingArgs # <<>>) =>
    LET rs == groupingArgs.results
        ds == [i \in 1..Len(rs) |-> rs[i].distance.n]
        bs == IF Len(rs) <= 1 THEN {} ELSE ClaimedBoundaries(ds)
        first == SetMin(bs)
        second == SetMin(bs \ {first})
    IN  /\ Len(groupingResult) <= Len(rs)
        /\ groupingResult = SubSeq(rs, 1, Len(groupingResult))
        /\ Len(rs) >= 1 => Len(groupingResult) >= 1
        /\ bs = {} => groupingResult = rs
        /\ (bs # {} /\ groupingArgs.mode = "similar") => Len(groupingResult) = first
        /\ (Cardinality(bs) >= 2 /\ groupingArgs.mode = "related") =>
             Len(groupingResult) = second
        /\ (Cardinality(bs) = 1 /\ groupingArgs.mode = "related") => groupingResult = rs

\* A list of eight with two outstanding gaps, cut in mode "related" at the
\* second of them.
C14_Witness ==
  /\ phase = "done"
  /\ groupingArgs # <<>>
  /\ groupingArgs.mode = "related"
  /\ Len(groupingArgs.results) = 8
  /\ Cardinality(ClaimedBoundaries([i \in 1..8 |-> groupingArgs.results[i].distance.n])) = 2
  /\ Len(groupingResult) \in 2..7

(***************************************************************************)
(* C29: applyGrouping returns a list of 4 or fewer candidates unchanged,   *)
(* in both modes and whatever the distances: of at most 3 gaps none        *)
(* exceeds mean + 1.5 * population standard deviation.  (A list of 5 can   *)
(* be cut: C29_FiveAreCut is reached.)                                     *)
(***************************************************************************)
C29_FourOrFewerUntouched ==
  (phase = "done" /\ groupingArgs # <<>> /\ Len(groupingArgs.results) <= 4) =>
    /\ groupingResult = groupingArgs.results
    /\ boundariesOf(gapsOf(groupingArgs.results)) = <<>>

\* Four candidates whose last gap stands out as far as one of three can.
C29_Witness ==
  /\ phase = "done"
  /\ groupingArgs # <<>>
  /\ Len(groupingArgs.results) = 4
  /\ [i \in 1..4 |-> groupingArgs.results[i].distance] =
       <<Rat(0, 1), Rat(0, 1), Rat(0, 1), Rat(5, 1)>>
  /\ groupingResult = groupingArgs.results

\* Five candidates, gaps 0, 0, 0, 5: the list is cut before the fifth.
C29_FiveAreCut ==
  /\ phase = "done"
  /\ groupingArgs # <<>>
  /\ Len(groupingArgs.results) = 5
  /\ Len(groupingResult) = 4

(***************************************************************************)
(* The docs database module (lancedb.ts).  Every await is a point where    *)
(* another call of the module may run; the code between two awaits is one  *)
(* action.                                                                 *)
(***************************************************************************)
DOCS_TABLE_NAME == "docs"

FTS_INDEX_NAME == "fts_docs_v1"

\* An FTS index left on the table by an earlier version.
OldIndexName == "fts_docs_v0"

MaxDense == 2

MaxFts == 1

\* The (weight, multiplier) pairs setHybridSearchConfig is called with.
Configs == { <<Rat(0, 1), 1>>, <<Rat(6, 10), 2>> }

\* params.query, and params.limit as <<>> (absent) or <<n>>.
Queries == { <<>>, <<" ">>, <<"q">> }

Limits == { <<>>, <<0>>, <<1>>, <<21>> }

\* 8/5 is boosted to 1 by the top keyword score under the default weight.
DenseDistances == { Rat(1, 1), Rat(8, 5) }

FtsScores == { Rat(1, 1), Rat(2, 1) }

Min(a, b) == IF a < b THEN a ELSE b

\* Six dense candidates of another file, the last one far from the others:
\* a list that applyGrouping would cut before its last element.
DenseWithGap ==
  [i \in 1..6 |-> Candidate("c", i - 1, Rat(IF i = 6 THEN 6 ELSE 1, 1))]

\* What tbl.vectorSearch(v).limit(candidateLimit).toArray() may return: at
\* most candidateLimit distinct rows, nearest first.
DenseResults(candidateLimit) ==
  (IF candidateLimit >= Len(DenseWithGap) THEN {DenseWithGap} ELSE {}) \cup
  UNION { { r \in { [i \in 1..Len(ks) |-> Candidate(ks[i][1], ks[i][2], ds[i])] :
                      ds \in [1..Len(ks) -> DenseDistances] } :
              \A i \in 1..(Len(r) - 1) : RLeq(r[i].distance, r[i + 1].distance) } :
          ks \in DistinctSeqs(Rows, Min(candidateLimit, MaxDense)) }

\* What the FTS query may return: rows of the files of the dense results,
\* at most results.length * 2 of them.
FtsResults(results) ==
  LET files == { results[i].filePath : i \in 1..Len(results) }
      rows == { k \in Rows : k[1] \in files }
  IN  UNION { { [i \in 1..Len(ks) |-> FtsRow(ks[i][1], ks[i][2], scs[i])] :
                  scs \in [1..Len(ks) -> FtsScores] } :
              ks \in DistinctSeqs(rows, Min(MaxFts, Len(results) * 2)) }

\* params.limit ?? 10
limitOf(params) == IF params.limit = <<>> THEN 10 ELSE params.limit[1]

\* limit < 1 || limit > 20
invalidLimit(limit) == limit < 1 \/ limit > 20

\* Mutation: the query text is not looked at.
hybridAppliesIgnoresQuery(fts, query, weight) ==
  fts /\ RLess(Rat(0, 1), weight)

\* ftsEnabled && params.query.trim().length > 0 && hybridWeight > 0
hybridApplies(fts, query, weight) ==
  fts /\ Len(trim(query)) > 0 /\ RLess(Rat(0, 1), weight)

\* Mutation: the list is cut at its first relevance gap before the slice.
sliceAfterGrouping(results, limit) ==
  SubSeq(applyGrouping(results, "similar"), 1,
         Min(limit, Len(applyGrouping(results, "similar"))))

\* results.slice(0, limit)
slice(results, limit) == SubSeq(results, 1, Min(limit, Len(results)))

\* Mutation: a failed FTS query leaves no results.
hybridResultsDropsOnError(results, fts, weight) ==
  IF fts.threw THEN <<>> ELSE applyKeywordBoost(results, fts.rows, weight)

\* The inner try/catch: the results after the FTS query returned or threw.
hybridResults(results, fts, weight) ==
  IF fts.threw THEN results ELSE applyKeywordBoost(results, fts.rows, weight)

NoInitCall == [pc |-> "idle", existing |-> {}]

\* The configuration a searchDocs call finds when it is called, kept with
\* the call for reference until its last read of the configuration (the
\* code takes no such copy).
ConfigNow == [weight |-> hybridWeight, multiplier |-> candidateMultiplier, fts |-> ftsEnabled]

NoSearch ==
  [pc |-> "idle", params |-> [query |-> <<>>, limit |-> <<>>],
   started |-> [weight |-> Rat(0, 1), multiplier |-> 0, fts |-> FALSE],
   candidateLimit |-> 0, vectorResults |-> <<>>,
   boost |-> "none", ftsRows |-> <<>>, result |-> <<>>, error |-> ""]

Init ==
  /\ phase = "db"
  /\ ChunkIdle /\ SplitIdle /\ GarbageIdle /\ BoostIdle /\ GroupingIdle /\ ChunkTextIdle /\ IngestIdle /\ ServerIdle
  /\ ModuleLoaded
  /\ diskTables \in { {}, {DOCS_TABLE_NAME} }
  /\ diskIndices \in SUBSET {FTS_INDEX_NAME, OldIndexName}
  /\ diskTables = {} => diskIndices = {}
  /\ initCall = NoInitCall
  /\ search = NoSearch

harnessVars == <<phase, chunkVars, splitVars, garbageVars, boostVars, groupingVars, chunkTextVars, ingestVars, serverVars>>

SetHybridSearchConfig(weight, multiplier) ==
  /\ hybridWeight' = weight
  /\ candidateMultiplier' = multiplier
  /\ UNCHANGED <<database, docsTable, ftsEnabled, diskTables, diskIndices,
                 initCall, search, harnessVars>>

CloseDocsDatabase ==
  /\ docsTable' = FALSE
  /\ ftsEnabled' = FALSE
  /\ UNCHANGED <<database, hybridWeight, candidateMultiplier, diskTables,
                 diskIndices, initCall, search, harnessVars>>

(* initDocsDatabase and ensureDocsFtsIndex *)

\* initDocsDatabase() is called: getDatabase() connects unless connected.
InitDocsDatabase ==
  /\ initCall.pc = "idle"
  /\ initCall' = [initCall EXCEPT !.pc = IF database THEN "tableNames" ELSE "connect"]
  /\ UNCHANGED <<moduleVars, diskTables, diskIndices, search, harnessVars>>

\* lancedb.connect resolves; db.tableNames() is called.
InitConnected ==
  /\ initCall.pc = "connect"
  /\ database' = TRUE
  /\ initCall' = [initCall EXCEPT !.pc = "tableNames"]
  /\ UNCHANGED <<docsTable, ftsEnabled, hybridWeight, candidateMultiplier,
                 diskTables, diskIndices, search, harnessVars>>

\* db.tableNames() resolves: the table is opened, or the call is over.
InitTableNames ==
  /\ initCall.pc = "tableNames"
  /\ initCall' = [initCall EXCEPT
                    !.pc = IF DOCS_TABLE_NAME \in diskTables THEN "openTable" ELSE "idle"]
  /\ UNCHANGED <<moduleVars, diskTables, diskIndices, search, harnessVars>>

\* getTable resolves: docsTable is set, ensureDocsFtsIndex lists the indices.
InitOpened ==
  /\ initCall.pc = "openTable"
  /\ docsTable' = TRUE
  /\ initCall' = [initCall EXCEPT !.pc = "listIndices"]
  /\ UNCHANGED <<database, ftsEnabled, hybridWeight, candidateMultiplier,
                 diskTables, diskIndices, search, harnessVars>>

\* listIndices() resolves or rejects.  With the expected index the flag is
\* set; without, docsTable.createIndex is called, a TypeError when the
\* handle was released meanwhile.
EnsureListed ==
  /\ initCall.pc = "listIndices"
  /\ \/ /\ ftsEnabled' = FALSE
        /\ initCall' = NoInitCall
     \/ /\ FTS_INDEX_NAME \in diskIndices
        /\ ftsEnabled' = TRUE
        /\ initCall' = NoInitCall
     \/ /\ FTS_INDEX_NAME \notin diskIndices
        /\ IF docsTable
           THEN /\ initCall' = [pc |-> "createIndex", existing |-> diskIndices]
                /\ UNCHANGED ftsEnabled
           ELSE /\ ftsEnabled' = FALSE
                /\ initCall' = NoInitCall
  /\ UNCHANGED <<database, docsTable, hybridWeight, candidateMultiplier,
                 diskTables, diskIndices, search, harnessVars>>

\* createIndex resolves or rejects; then the old indices are dropped.
EnsureCreated ==
  /\ initCall.pc = "createIndex"
  /\ \/ /\ ftsEnabled' = FALSE
        /\ initCall' = NoInitCall
        /\ UNCHANGED diskIndices
     \/ /\ diskIndices' = diskIndices \cup {FTS_INDEX_NAME}
        /\ IF initCall.existing = {}
           THEN ftsEnabled' = TRUE /\ initCall' = NoInitCall
           ELSE IF docsTable
                THEN ftsEnabled' = TRUE /\ initCall' = [initCall EXCEPT !.pc = "dropIndex"]
                ELSE ftsEnabled' = FALSE /\ initCall' = NoInitCall
  /\ UNCHANGED <<database, docsTable, hybridWeight, candidateMultiplier,
                 diskTables, search, harnessVars>>

\* dropIndex resolves or rejects.
EnsureDropped ==
  /\ initCall.pc = "dropIndex"
  /\ \/ /\ ftsEnabled' = FALSE
        /\ UNCHANGED diskIndices
     \/ /\ diskIndices' = diskIndices \ initCall.existing
        /\ UNCHANGED ftsEnabled
  /\ initCall' = NoInitCall
  /\ UNCHANGED <<database, docsTable, hybridWeight, candidateMultiplier,
                 diskTables, search, harnessVars>>

(* searchDocs *)

searchUnchanged == <<diskTables, diskIndices, initCall, harnessVars>>

\* searchDocs(params, queryVector) is called and runs getDocsTable() up to
\* its first await: the cached handle, or getDatabase() and db.tableNames().
SearchDocs(query, limit) ==
  /\ search.pc = "idle"
  /\ search' = [NoSearch EXCEPT
                  !.params = [query |-> query, limit |-> limit],
                  !.started = ConfigNow,
                  !.pc = IF docsTable THEN "gotTable"
                         ELSE IF database THEN "tableNames" ELSE "connect"]
  /\ UNCHANGED <<moduleVars, searchUnchanged>>

\* lancedb.connect resolves; db.tableNames() is called.
SearchConnected ==
  /\ search.pc = "connect"
  /\ database' = TRUE
  /\ search' = [search EXCEPT !.pc = "tableNames"]
  /\ UNCHANGED <<docsTable, ftsEnabled, hybridWeight, candidateMultiplier, searchUnchanged>>

\* db.tableNames() resolves: without the docs table getDocsTable throws, with
\* it the table is opened.
SearchTableNames ==
  /\ search.pc = "tableNames"
  /\ search' = IF DOCS_TABLE_NAME \in diskTables
               THEN [search EXCEPT !.pc = "openTable"]
               ELSE [search EXCEPT !.pc = "failed", !.started = NoSearch.started, !.error = "Docs table does not exist yet"]
  /\ UNCHANGED <<moduleVars, searchUnchanged>>

\* openTable resolves: docsTable is set and returned.
SearchOpened ==
  /\ search.pc = "openTable"
  /\ docsTable' = TRUE
  /\ search' = [search EXCEPT !.pc = "gotTable"]
  /\ UNCHANGED <<database, ftsEnabled, hybridWeight, candidateMultiplier, searchUnchanged>>

\* searchDocs resumes with tbl: the limit is checked, then the dense query
\* is sent with limit * candidateMultiplier.  candidateLimit is kept while
\* the query is in flight.
SearchCheckLimit ==
  /\ search.pc = "gotTable"
  /\ search' = IF invalidLimit(limitOf(search.params))
               THEN [search EXCEPT !.pc = "failed", !.started = NoSearch.started, !.error = "Invalid limit"]
               ELSE [search EXCEPT !.pc = "vectorSearch",
                                   !.candidateLimit = limitOf(search.params) * candidateMultiplier]
  /\ UNCHANGED <<moduleVars, searchUnchanged>>

\* query.toArray() resolves or rejects.  With hybrid ranking on, the FTS
\* query is sent; without, the results are cut to limit and returned.
SearchVectorResults ==
  /\ search.pc = "vectorSearch"
  /\ \/ search' = [search EXCEPT !.pc = "failed", !.started = NoSearch.started, !.candidateLimit = 0,
                                  !.error = "Failed to search docs"]
     \/ \E rs \in DenseResults(search.candidateLimit) :
          search' =
            IF hybridApplies(ftsEnabled, search.params.query, hybridWeight)
            THEN [search EXCEPT !.pc = "ftsSearch", !.candidateLimit = 0,
                                !.vectorResults = rs]
            ELSE [search EXCEPT !.pc = "done", !.started = NoSearch.started, !.candidateLimit = 0,
                                !.vectorResults = rs, !.boost = "skipped",
                                !.result = slice(rs, limitOf(search.params))]
  /\ UNCHANGED <<moduleVars, searchUnchanged>>

\* The FTS query resolves or rejects: the keyword boost with the weight as
\* it is now, or the error logged and the dense results kept; then the cut.
SearchFtsResults ==
  /\ search.pc = "ftsSearch"
  /\ \E fts \in { [threw |-> TRUE, rows |-> <<>>] } \cup
                { [threw |-> FALSE, rows |-> rows] : rows \in FtsResults(search.vectorResults) } :
       search' = [search EXCEPT
                    !.pc = "done", !.started = NoSearch.started,
                    !.boost = IF fts.threw THEN "threw" ELSE "applied",
                    !.ftsRows = fts.rows,
                    !.result = slice(hybridResults(search.vectorResults, fts, hybridWeight),
                                     limitOf(search.params))]
  /\ UNCHANGED <<moduleVars, searchUnchanged>>

\* The caller takes the result or the error.
SearchReturn ==
  /\ search.pc \in {"done", "failed"}
  /\ search' = NoSearch
  /\ UNCHANGED <<moduleVars, searchUnchanged>>

Next ==
  \/ \E c \in Configs : SetHybridSearchConfig(c[1], c[2])
  \/ CloseDocsDatabase
  \/ InitDocsDatabase
  \/ InitConnected
  \/ InitTableNames
  \/ InitOpened
  \/ EnsureListed
  \/ EnsureCreated
  \/ EnsureDropped
  \/ \E q \in Queries, l \in Limits : SearchDocs(q, l)
  \/ SearchConnected
  \/ SearchTableNames
  \/ SearchOpened
  \/ SearchCheckLimit
  \/ SearchVectorResults
  \/ SearchFtsResults
  \/ SearchReturn

Spec == Init /\ [][Next]_vars

\* The first n elements of a list.
FirstN(rs, n) == [i \in 1..Min(n, Len(rs)) |-> rs[i]]

\* The position of the candidate of a row in a list of candidates.
PositionIn(rs, r) == CHOOSE i \in 1..Len(rs) : keyOf(rs[i]) = keyOf(r)

\* A searchDocs call returned without boost, or boosted with no keyword row.
C6_NoBoostReturned ==
  /\ search.pc = "done"
  /\ search.boost = "skipped" \/ (search.boost = "applied" /\ search.ftsRows = <<>>)

\* The dense query of a call resolves while boosting does not apply.
C6_DenseResolvesWithoutBoost ==
  /\ search.pc = "vectorSearch"
  /\ search'.pc \notin {"vectorSearch", "failed"}
  /\ \/ ~ftsEnabled
     \/ Len(trim(search.params.query)) = 0
     \/ hybridWeight = Rat(0, 1)

(***************************************************************************)
(* C6: when boosting does not apply (FTS index not enabled, empty or       *)
(* whitespace-only query, configured weight 0) searchDocs returns at once, *)
(* and then, as when the keyword search returns no rows, the result is the *)
(* dense candidates in dense order with their distances, cut to limit.     *)
(***************************************************************************)
C6_DenseOnlyWhenNoBoost ==
  /\ [](C6_NoBoostReturned =>
          search.result = FirstN(search.vectorResults, limitOf(search.params)))
  /\ [][C6_DenseResolvesWithoutBoost =>
          /\ search'.pc = "done"
          /\ search'.boost = "skipped"
          /\ search'.result = FirstN(search'.vectorResults, limitOf(search.params))]_vars

\* With the FTS index enabled and a query text, weight 0 leaves the first of
\* two dense candidates as the result for limit 1.
C6_Witness ==
  /\ search.pc = "done"
  /\ search.boost = "skipped"
  /\ ftsEnabled /\ hybridWeight = Rat(0, 1)
  /\ search.params = [query |-> <<"q">>, limit |-> <<1>>]
  /\ Len(search.vectorResults) = 2
  /\ search.result = <<search.vectorResults[1]>>

(***************************************************************************)
(* C8: the list searchDocs returns is in ascending order of the final      *)
(* distance, and candidates with equal final distance keep the order the   *)
(* dense search gave them.                                                 *)
(***************************************************************************)
C8_ResultSortedStable ==
  search.pc = "done" =>
    \A i, j \in 1..Len(search.result) :
      i < j =>
        /\ RLeq(search.result[i].distance, search.result[j].distance)
        /\ search.result[i].distance = search.result[j].distance =>
             PositionIn(search.vectorResults, search.result[i])
               < PositionIn(search.vectorResults, search.result[j])

\* The second candidate is boosted from 1.6 to the distance 1 of the first
\* and stays second.
C8_Witness ==
  /\ search.pc = "done"
  /\ search.boost = "applied"
  /\ search.vectorResults = <<Candidate("a", 0, Rat(1, 1)), Candidate("a", 1, Rat(8, 5))>>
  /\ search.result = <<Candidate("a", 0, Rat(1, 1)), Candidate("a", 1, Rat(1, 1))>>

(***************************************************************************)
(* C9: when the FTS query throws, searchDocs does not fail: it returns the *)
(* first limit dense candidates in their order with their distances.       *)
(***************************************************************************)
C9_FtsErrorFallsBackToDense ==
  /\ []((search.pc = "done" /\ search.boost = "threw") =>
          search.result = FirstN(search.vectorResults, limitOf(search.params)))
  /\ [][search.pc = "ftsSearch" => search'.pc \in {"ftsSearch", "done"}]_vars

\* The FTS query threw with two dense candidates and limit 1.
C9_Witness ==
  /\ search.pc = "done"
  /\ search.boost = "threw"
  /\ search.params.limit = <<1>>
  /\ Len(search.vectorResults) = 2
  /\ search.result = <<search.vectorResults[1]>>

(***************************************************************************)
(* C10: a searchDocs call with a limit below 1 or above 20 makes no        *)
(* external call (no connection, table lookup, dense or keyword query is   *)
(* in flight for it) and fails with the 'Invalid limit' error only.        *)
(***************************************************************************)
C10_InvalidLimitBeforeExternalCalls ==
  (search.pc # "idle" /\ invalidLimit(limitOf(search.params))) =>
     /\ search.pc \in {"gotTable", "failed"}
     /\ search.pc = "failed" => search.error = "Invalid limit"

(***************************************************************************)
(* C17: searchDocs returns min(limit, N) of the N dense candidates, each   *)
(* at most once (all of them when limit >= N): a row that only the keyword *)
(* search found is never in the result, and the list is not cut at a       *)
(* relevance gap.                                                          *)
(***************************************************************************)
C17_ResultIsPrefixOfReordering ==
  search.pc = "done" =>
    LET rs == search.result
        dense == search.vectorResults
    IN  /\ Len(rs) = Min(limitOf(search.params), Len(dense))
        /\ \A i \in 1..Len(rs) : \E j \in 1..Len(dense) : keyOf(rs[i]) = keyOf(dense[j])
        /\ \A i, j \in 1..Len(rs) : i # j => keyOf(rs[i]) # keyOf(rs[j])

\* The keyword search returned a row that is no dense candidate; the two
\* dense candidates are the result.
C17_Witness ==
  /\ search.pc = "done"
  /\ search.boost = "applied"
  /\ Len(search.vectorResults) = 2
  /\ \E i \in 1..Len(search.ftsRows) :
        \A j \in 1..2 : keyOf(search.ftsRows[i]) # keyOf(search.vectorResults[j])
  /\ Len(search.result) = 2

\* A step in which the searchDocs call in flight reads the configuration:
\* candidateMultiplier when it builds the dense query, ftsEnabled and
\* hybridWeight when the dense results arrive, hybridWeight again when the
\* FTS rows arrive.
C11_ReadsMultiplier == search.pc = "gotTable" /\ search'.pc = "vectorSearch"

C11_ReadsCondition == search.pc = "vectorSearch" /\ search'.pc \in {"ftsSearch", "done"}

C11_ReadsWeight == search.pc = "ftsSearch" /\ search'.pc = "done" /\ search'.boost = "applied"

(***************************************************************************)
(* C11: every value of the configuration a searchDocs call reads (hybrid   *)
(* weight, candidate multiplier, FTS flag) is the value that was in effect *)
(* when the call started, whatever setHybridSearchConfig and               *)
(* closeDocsDatabase calls run while it is in flight.                      *)
(***************************************************************************)
C11_RanksWithConfigAtStart ==
  [][/\ C11_ReadsMultiplier => candidateMultiplier = search.started.multiplier
     /\ C11_ReadsCondition => (ftsEnabled = search.started.fts
                                /\ hybridWeight = search.started.weight)
     /\ C11_ReadsWeight => hybridWeight = search.started.weight]_vars

(***************************************************************************)
(* Documentation ingest (src/scripts/ingest.ts): ingestDocs, ingestDocFile *)
(* and the docs table writers deleteDocChunks and insertDocChunks.  The    *)
(* script awaits every call before the next one, so a call of the docs     *)
(* database module is one step with all the outcomes it can have.          *)
(***************************************************************************)
MaxFiles == 2

MaxChunks == 2

\* Paths relative to DOCS_ROOT, as their "/"-separated parts, in the order
\* walk yields them.
DocPaths == << <<"core", "a.md">>, <<"index.md">>, <<"loading", "b.md">> >>

DocFiles == { DocPaths[k] : k \in 1..MaxFiles }

Categories == { "", "core", "root" }

extractCategory(filePath) ==
  IF Len(filePath) = 1 \/ filePath[1] = "index.md" THEN "root" ELSE filePath[1]

\* The rows stored for n chunks of a file; the text tells the content
\* they were made from.
RowsFor(filePath, n, content) ==
  { [filePath |-> filePath, chunkIndex |-> k - 1, text |-> content] : k \in 1..n }

RowsOf(rs, filePath) == { r \in rs : r.filePath = filePath }

\* before is not a variable of the code: it records the rows stored for
\* the file in hand when ingestDocFile was called for it.
NoIngest ==
  [pc |-> "idle", category |-> "", files |-> <<>>, i |-> 0, chunks |-> 0,
   totalChunks |-> 0, categories |-> <<>>, visited |-> <<>>, failed |-> <<>>,
   filesProcessed |-> 0, before |-> {}]

IngestInit ==
  /\ phase = "ingest"
  /\ ChunkIdle /\ SplitIdle /\ GarbageIdle /\ BoostIdle /\ GroupingIdle /\ ChunkTextIdle
  /\ ServerIdle
  /\ ModuleLoaded
  /\ initCall = <<>> /\ search = <<>>
  /\ diskTables \in { {}, {DOCS_TABLE_NAME} }
  /\ diskIndices \in SUBSET {FTS_INDEX_NAME, OldIndexName}
  /\ diskTables = {} => diskIndices = {}
  /\ \E n \in 0..MaxFiles : docsRoot \in [{ DocPaths[k] : k \in 1..n } -> 0..MaxChunks]
  /\ \E old \in [DocFiles -> {0, MaxChunks}] :
        /\ diskTables = {} => \A f \in DocFiles : old[f] = 0
        /\ tableRows = UNION { RowsFor(f, old[f], "old") : f \in DocFiles }
  /\ ingest = NoIngest

ingestUnchanged ==
  <<phase, chunkVars, splitVars, garbageVars, boostVars, groupingVars, chunkTextVars,
    serverVars, hybridWeight, candidateMultiplier, initCall, search, docsRoot>>

\* ensureDocsFtsIndex on a held table: the values [fts, indices] it can
\* leave in ftsEnabled and in the table's indices.
ensureDocsFtsIndexOutcomes(indices) ==
  {[fts |-> FALSE, indices |-> indices]} \cup
  (IF FTS_INDEX_NAME \in indices
     THEN {[fts |-> TRUE, indices |-> indices]}
     ELSE IF indices = {}
       THEN {[fts |-> TRUE, indices |-> {FTS_INDEX_NAME}]}
       ELSE {[fts |-> TRUE, indices |-> {FTS_INDEX_NAME}],
             [fts |-> FALSE, indices |-> indices \cup {FTS_INDEX_NAME}]})

\* ingestDocs(options) is called: initDocsDatabase() is awaited.
IngestDocs(category) ==
  /\ ingest.pc = "idle"
  /\ ingest' = [ingest EXCEPT !.pc = "init", !.category = category]
  /\ UNCHANGED <<moduleVars, diskTables, diskIndices, tableRows, ingestUnchanged>>

\* initDocsDatabase() rejects (connect, tableNames or openTable failed), or
\* resolves with the table opened and its index ensured, if there is one.
IngestInitDocsDatabase ==
  /\ ingest.pc = "init"
  /\ \/ /\ ingest' = [ingest EXCEPT !.pc = "failed"]
        /\ database' \in {database, TRUE}
        /\ UNCHANGED <<docsTable, ftsEnabled, diskIndices>>
     \/ /\ DOCS_TABLE_NAME \notin diskTables
        /\ ingest' = [ingest EXCEPT !.pc = "walk"]
        /\ database' = TRUE
        /\ UNCHANGED <<docsTable, ftsEnabled, diskIndices>>
     \/ /\ DOCS_TABLE_NAME \in diskTables
        /\ ingest' = [ingest EXCEPT !.pc = "walk"]
        /\ database' = TRUE
        /\ docsTable' = TRUE
        /\ \E o \in ensureDocsFtsIndexOutcomes(diskIndices) :
              ftsEnabled' = o.fts /\ diskIndices' = o.indices
  /\ UNCHANGED <<diskTables, tableRows, ingestUnchanged>>

\* The files of seq whose category is the one asked for.
RECURSIVE filterCategory(_, _)
filterCategory(seq, category) ==
  IF seq = <<>> THEN <<>>
  ELSE IF extractCategory(Head(seq)) = category
    THEN <<Head(seq)>> \o filterCategory(Tail(seq), category)
    ELSE filterCategory(Tail(seq), category)

\* The loop of ingestDocs goes to its next file, or ingestDocs returns.
nextFile(call) ==
  IF call.i < Len(call.files)
    THEN [call EXCEPT !.pc = "read", !.i = call.i + 1, !.chunks = 0,
                      !.visited = Append(call.visited, call.files[call.i + 1]),
                      !.before = RowsOf(tableRows, call.files[call.i + 1])]
    ELSE [call EXCEPT !.pc = "done", !.filesProcessed = Len(call.files)]

\* catch of ingestDocs: the failure is logged and the loop goes on.
caught(call, step) ==
  nextFile([call EXCEPT !.failed = Append(call.failed, <<call.files[call.i], step>>)])

\* ingestDocFile returned n: totalChunks and categories are updated.
ingested(call, n) ==
  LET cat == extractCategory(call.files[call.i])
      count == IF cat \in DOMAIN call.categories THEN call.categories[cat] ELSE 0
  IN  nextFile([call EXCEPT
         !.totalChunks = call.totalChunks + n,
         !.categories = [c \in DOMAIN call.categories \cup {cat} |->
                           IF c = cat THEN count + 1 ELSE call.categories[c]]])

\* walk(DOCS_ROOT) ends, or fails; the files are filtered by category.
IngestWalk ==
  /\ ingest.pc = "walk"
  /\ \/ ingest' = [ingest EXCEPT !.pc = "failed"]
     \/ LET mdFiles == SubSeq(DocPaths, 1, Cardinality(DOMAIN docsRoot))
            filesToProcess == IF ingest.category # ""
                                THEN filterCategory(mdFiles, ingest.category)
                                ELSE mdFiles
        IN  ingest' = nextFile([ingest EXCEPT !.files = filesToProcess])
  /\ UNCHANGED <<moduleVars, diskTables, diskIndices, tableRows, ingestUnchanged>>

\* ingestDocFile: Deno.readTextFile and Deno.stat resolve, or one rejects.
IngestReadFile ==
  /\ ingest.pc = "read"
  /\ \/ ingest' = caught(ingest, "read")
     \/ ingest' = [ingest EXCEPT !.pc = "chunk"]
  /\ UNCHANGED <<moduleVars, diskTables, diskIndices, tableRows, ingestUnchanged>>

\* ingestDocFile: chunker.chunkText resolves with the chunks of the content,
\* or rejects; without chunks ingestDocFile returns 0.
IngestChunkText ==
  /\ ingest.pc = "chunk"
  /\ \/ ingest' = caught(ingest, "chunk")
     \/ LET n == docsRoot[ingest.files[ingest.i]]
        IN  ingest' = IF n = 0 THEN ingested(ingest, 0)
                      ELSE [ingest EXCEPT !.pc = "embed", !.chunks = n]
  /\ UNCHANGED <<moduleVars, diskTables, diskIndices, tableRows, ingestUnchanged>>

\* ingestDocFile: generateEmbeddingsBatch resolves or rejects.
IngestEmbed ==
  /\ ingest.pc = "embed"
  /\ \/ ingest' = caught(ingest, "embed")
     \/ ingest' = [ingest EXCEPT !.pc = "delete"]
  /\ UNCHANGED <<moduleVars, diskTables, diskIndices, tableRows, ingestUnchanged>>

\* Mutation: the delete predicate matches every row.
deletedRowsAnyPath(rs, filePath) == {}

\* tbl.delete("filePath = '...'"): the tableRows left.  The quoted literal, with
\* each ' doubled, denotes filePath itself.
deletedRows(rs, filePath) == { r \in rs : r.filePath # filePath }

\* ingestDocFile: deleteDocChunks(relPath) returns without a delete (no
\* table, or the table was not opened, or the delete failed with one of the
\* tolerated messages), throws, or has deleted the tableRows of the file.
IngestDeleteDocChunks ==
  /\ ingest.pc = "delete"
  /\ LET filePath == ingest.files[ingest.i]
     IN  \/ /\ ~docsTable
            /\ ingest' = [ingest EXCEPT !.pc = "insert"]
            /\ UNCHANGED <<docsTable, tableRows>>
         \/ /\ docsTable \/ DOCS_TABLE_NAME \in diskTables
            /\ docsTable' = TRUE
            /\ \/ /\ ingest' = [ingest EXCEPT !.pc = "insert"]
                  /\ tableRows' \in {tableRows, deletedRows(tableRows, filePath)}
               \/ /\ ingest' = caught(ingest, "delete")
                  /\ UNCHANGED tableRows
  /\ UNCHANGED <<database, ftsEnabled, hybridWeight, candidateMultiplier,
                 diskTables, diskIndices, initCall, search, docsRoot,
                 phase, chunkVars, splitVars, garbageVars, boostVars,
                 groupingVars, chunkTextVars, serverVars>>

\* ingestDocFile: insertDocChunks(docChunks) throws, creates the table with
\* the records and ensures its index, or adds the records to the table.
IngestInsertDocChunks ==
  /\ ingest.pc = "insert"
  /\ LET filePath == ingest.files[ingest.i]
         records == RowsFor(filePath, ingest.chunks, "new")
     IN  \/ /\ ingest' = caught(ingest, "insert")
            /\ \/ docsTable' = docsTable
               \/ DOCS_TABLE_NAME \in diskTables /\ docsTable' = TRUE
            /\ UNCHANGED <<ftsEnabled, diskTables, diskIndices, tableRows>>
         \/ /\ DOCS_TABLE_NAME \notin diskTables
            /\ diskTables' = diskTables \cup {DOCS_TABLE_NAME}
            /\ docsTable' = TRUE
            /\ tableRows' = records
            /\ \E o \in ensureDocsFtsIndexOutcomes(diskIndices) :
                  ftsEnabled' = o.fts /\ diskIndices' = o.indices
            /\ ingest' = ingested(ingest, ingest.chunks)
         \/ /\ DOCS_TABLE_NAME \in diskTables
            /\ docsTable' = TRUE
            /\ tableRows' = tableRows \cup records
            /\ ingest' = ingested(ingest, ingest.chunks)
            /\ UNCHANGED <<ftsEnabled, diskTables, diskIndices>>
  /\ UNCHANGED <<database, hybridWeight, candidateMultiplier, initCall, search,
                 docsRoot, phase, chunkVars, splitVars, garbageVars, boostVars,
                 groupingVars, chunkTextVars, serverVars>>

IngestNext ==
  \/ \E category \in Categories : IngestDocs(category)
  \/ IngestInitDocsDatabase
  \/ IngestWalk
  \/ IngestReadFile
  \/ IngestChunkText
  \/ IngestEmbed
  \/ IngestDeleteDocChunks
  \/ IngestInsertDocChunks

SpecIngest == IngestInit /\ [][IngestNext]_vars

(***************************************************************************)
(* C20: whatever a step of ingesting one file does, failing included, it   *)
(* leaves the stored rows of every other file as they were; and when       *)
(* ingestDocs returns, ingestDocFile has been called for every file to     *)
(* process, in order, whichever of them failed.                            *)
(***************************************************************************)
InFile == ingest.pc \in {"read", "chunk", "embed", "delete", "insert"}

C20_OtherFilesUntouched ==
  /\ [](ingest.pc = "done" => ingest.visited = ingest.files)
  /\ [][\A f \in DocFiles :
          (InFile /\ f # ingest.files[ingest.i]) =>
             RowsOf(tableRows', f) = RowsOf(tableRows, f)]_vars

\* The first file failed at the insert, after its old rows were deleted;
\* the second file was ingested, and its rows replaced.
C20_Witness ==
  /\ ingest.pc = "done"
  /\ ingest.files = <<DocPaths[1], DocPaths[2]>>
  /\ ingest.failed = << <<DocPaths[1], "insert">> >>
  /\ RowsOf(tableRows, DocPaths[1]) = {}
  /\ RowsOf(tableRows, DocPaths[2]) = RowsFor(DocPaths[2], 2, "new")

(***************************************************************************)
(* C30: in every reachable state of the docs database module, ftsEnabled   *)
(* is true only while a docs table handle is held (docsTable is not null), *)
(* also when closeDocsDatabase runs while ensureDocsFtsIndex is suspended  *)
(* at an await.                                                            *)
(***************************************************************************)
C30_FtsEnabledOnlyWithTable == ftsEnabled => docsTable

(***************************************************************************)
(* C27: ingestDocFile replaces the stored chunks of a file as a unit: when *)
(* it returns normally the rows stored with the filePath are exactly the   *)
(* chunks of the current content, none if the content yields no chunk; and *)
(* when it fails, the rows stored for the file before the call are still   *)
(* there.                                                                  *)
(***************************************************************************)
\* The step in which ingestDocFile returns, or throws, for the file in hand.
IngestDocFileReturns ==
  /\ InFile
  /\ ingest'.i # ingest.i \/ ingest'.pc = "done"
  /\ ingest'.failed = ingest.failed

IngestDocFileThrows ==
  /\ InFile
  /\ Len(ingest'.failed) = Len(ingest.failed) + 1

C27_ReplacedAsUnit ==
  [][LET filePath == ingest.files[ingest.i]
     IN  /\ IngestDocFileReturns =>
              RowsOf(tableRows', filePath) = RowsFor(filePath, docsRoot[filePath], "new")
         /\ IngestDocFileThrows =>
              ingest.before \subseteq RowsOf(tableRows', filePath)]_vars

(***************************************************************************)
(* The MCP server: the tools/call request handler of                       *)
(* createApplesauceMCPServer and the tool handlers it dispatches to.  An   *)
(* optional value is a sequence of length 0 or 1; a result is             *)
(* [isError, kind, message, count], isError FALSE when the field is not    *)
(* set.                                                                    *)
(***************************************************************************)
TOOL_HANDLERS ==
  { "search_examples", "list_examples", "read_example",
    "search_docs", "list_docs", "read_doc" }

\* The documents a table holds, at most.
MaxStored == 22

\* The tool names requested, and the arguments sent with them.
RequestedNames == TOOL_HANDLERS \cup { "search_methods", "no_such_tool" }

StringValues ==
  { <<>>,
    <<[type |-> "string", value |-> ""]>>,
    <<[type |-> "string", value |-> "q"]>>,
    <<[type |-> "number", value |-> "7"]>> }

LimitValues == { <<>>, <<-1>>, <<0>>, <<1>>, <<20>>, <<21>> }

Arguments(query, limit, name, id) ==
  [given |-> TRUE, query |-> query, limit |-> limit, name |-> name, id |-> id]

\* The request has no arguments member.
NoArguments == [given |-> FALSE, query |-> <<>>, limit |-> <<>>, name |-> <<>>, id |-> <<>>]

RequestedArguments ==
  { NoArguments }
    \cup { Arguments(q, l, <<>>, <<>>) : q \in StringValues, l \in LimitValues }
    \cup { Arguments(<<>>, <<>>, n, <<>>) : n \in StringValues }
    \cup { Arguments(<<>>, <<>>, <<>>, i) : i \in StringValues }

\* !v || typeof v !== "string"
missingString(v) == v = <<>> \/ v[1].type # "string" \/ v[1].value = ""

NoResult == [isError |-> FALSE, kind |-> "", message |-> "", count |-> 0]

\* The result of the catch of the request handler.
errorResult(message) ==
  [isError |-> TRUE, kind |-> "error", message |-> message, count |-> 0]

\* The result of the catch inside a tool handler, and of "not found".
errorText(message) ==
  [isError |-> FALSE, kind |-> "error", message |-> message, count |-> 0]

resultsText(n) == [isError |-> FALSE, kind |-> "results", message |-> "", count |-> n]

NoToolCall ==
  [pc |-> "idle", via |-> "", name |-> "", args |-> NoArguments,
   storeLimit |-> <<>>, rejected |-> FALSE, result |-> NoResult]

\* Math.min(Math.max(params.limit ?? fallback, 1), 20)
clampLimit(limit, fallback) ==
  LET requested == IF limit = <<>> THEN fallback ELSE limit[1]
  IN  Min(IF requested < 1 THEN 1 ELSE requested, 20)

\* params.limit ?? 5, as handleSearchDocs hands it to similaritySearch.
searchDocsLimit(limit) == IF limit = <<>> THEN 5 ELSE limit[1]

\* The handlers that search a vector store, and the limit each computes.
SearchHandlers == { "search_examples", "search_docs", "search_methods" }

storeLimitOf(name, limit) ==
  CASE name = "search_examples" -> clampLimit(limit, 5)
    [] name = "search_methods" -> clampLimit(limit, 10)
    [] name = "search_docs" -> searchDocsLimit(limit)

\* The required parameter of a handler, as sent; list_* have none.
requiredOf(name, args) ==
  CASE name \in SearchHandlers -> args.query
    [] name = "read_example" -> args.name
    [] name = "read_doc" -> args.id

requiredName(name) ==
  CASE name \in SearchHandlers -> "query"
    [] name = "read_example" -> "name"
    [] name = "read_doc" -> "id"

\* An error leaves the handler of a call: the catch of the request handler
\* answers it; a handler called directly rejects.
thrown(call, message) ==
  IF call.via = "server"
    THEN [call EXCEPT !.pc = "responded", !.result = errorResult(message)]
    ELSE [call EXCEPT !.pc = "thrown", !.result = errorText(message)]

returned(call, result) == [call EXCEPT !.pc = "responded", !.result = result]

\* A handler runs up to its first await.
handlerStart(call) ==
  IF call.name \in {"list_examples", "list_docs"}
    THEN [call EXCEPT !.pc = "list"]
  ELSE IF ~call.args.given
    THEN thrown(call, "Cannot read properties of undefined")
  ELSE IF missingString(requiredOf(call.name, call.args))
    THEN thrown(call, "Missing required parameter: " \o requiredName(call.name))
  ELSE IF call.name \in SearchHandlers
    THEN [call EXCEPT !.pc = "getVectorStore"]
  ELSE [call EXCEPT !.pc = "read"]

ToolInit ==
  /\ phase = "tool"
  /\ ChunkIdle /\ SplitIdle /\ GarbageIdle /\ BoostIdle /\ DbIdle /\ GroupingIdle
  /\ ChunkTextIdle /\ IngestIdle
  /\ toolCall = NoToolCall
  /\ startup = <<>>

toolUnchanged ==
  <<phase, chunkVars, splitVars, garbageVars, boostVars, dbVars, groupingVars,
    chunkTextVars, ingestVars, startup>>

\* The tools/call request handler is called with request.params.
CallTool(name, args) ==
  /\ toolCall.pc = "idle"
  /\ LET call == [toolCall EXCEPT !.via = "server", !.name = name, !.args = args]
     IN  toolCall' = IF name \notin TOOL_HANDLERS
                       THEN thrown(call, "Unknown tool: " \o name)
                       ELSE handlerStart(call)
  /\ UNCHANGED toolUnchanged

\* handleSearchMethods(args) is called.
HandleSearchMethods(args) ==
  /\ toolCall.pc = "idle"
  /\ toolCall' = handlerStart([toolCall EXCEPT !.via = "direct",
                                               !.name = "search_methods", !.args = args])
  /\ UNCHANGED toolUnchanged

\* An error raised inside a handler: handleSearchExamples and the list_*
\* handlers catch it and return its message; the others let it out.
handlerError(call, message) ==
  LET failed == [call EXCEPT !.rejected = TRUE]
  IN  IF call.name \in {"search_examples", "list_examples", "list_docs"}
        THEN returned(failed, errorText(message))
        ELSE thrown(failed, message)

\* await getVectorStore(table) resolves, and similaritySearch is called
\* with the limit of the handler, or rejects.
ToolGetVectorStore ==
  /\ toolCall.pc = "getVectorStore"
  /\ \/ toolCall' = handlerError(toolCall, "table not found")
     \/ toolCall' = [toolCall EXCEPT
                       !.pc = "similaritySearch",
                       !.storeLimit = <<storeLimitOf(toolCall.name, toolCall.args.limit)>>]
  /\ UNCHANGED toolUnchanged

\* await store.similaritySearch(query, k) resolves with up to k documents,
\* or rejects.
ToolSimilaritySearch ==
  /\ toolCall.pc = "similaritySearch"
  /\ \/ toolCall' = handlerError(toolCall, "search failed")
     \/ \E n \in {0, Min(toolCall.storeLimit[1], MaxStored)} :
          /\ n >= 0
          /\ toolCall' = returned(toolCall, resultsText(n))
  /\ UNCHANGED toolUnchanged

\* await readExample(name) / readDoc(id): the file, nothing, or an error.
ToolRead ==
  /\ toolCall.pc = "read"
  /\ \/ toolCall' = handlerError(toolCall, "read failed")
     \/ toolCall' = returned(toolCall, errorText("not found"))
     \/ toolCall' = returned(toolCall, resultsText(1))
  /\ UNCHANGED toolUnchanged

\* await listExamples() / listDocs() resolves or rejects.
ToolList ==
  /\ toolCall.pc = "list"
  /\ \/ toolCall' = handlerError(toolCall, "list failed")
     \/ \E n \in {0, MaxStored} : toolCall' = returned(toolCall, resultsText(n))
  /\ UNCHANGED toolUnchanged

ToolNext ==
  \/ \E name \in RequestedNames, args \in RequestedArguments : CallTool(name, args)
  \/ \E args \in RequestedArguments : HandleSearchMethods(args)
  \/ ToolGetVectorStore
  \/ ToolSimilaritySearch
  \/ ToolRead
  \/ ToolList

SpecTool == ToolInit /\ [][ToolNext]_vars

(***************************************************************************)
(* C21: every tool call that fails (the tool name is unknown, a required   *)
(* parameter is missing, or an error is raised inside the tool handler) is *)
(* answered with a result whose isError is true and whose text carries the *)
(* error message; the tools/call request handler never throws.             *)
(***************************************************************************)
ToolCallFailed ==
  \/ toolCall.name \notin TOOL_HANDLERS
  \/ toolCall.rejected
  \/ /\ toolCall.name \notin {"list_examples", "list_docs"}
     /\ \/ ~toolCall.args.given
        \/ missingString(requiredOf(toolCall.name, toolCall.args))

C21_FailuresFlagged ==
  toolCall.via = "server" =>
    /\ toolCall.pc # "thrown"
    /\ (toolCall.pc = "responded" /\ ToolCallFailed) =>
         /\ toolCall.result.isError
         /\ toolCall.result.kind = "error"
         /\ toolCall.result.message # ""

(***************************************************************************)
(* C22: search_docs hands the vector store a limit of 5 when the request   *)
(* has none, and never a limit outside 1..20, so that it returns at most   *)
(* 20 results.                                                             *)
(***************************************************************************)
C22_SearchDocsLimitInRange ==
  (toolCall.name = "search_docs" /\ toolCall.storeLimit # <<>>) =>
    /\ toolCall.storeLimit[1] \in 1..20
    /\ toolCall.args.limit = <<>> => toolCall.storeLimit[1] = 5
    /\ toolCall.result.count <= 20

(***************************************************************************)
(* The start of the server: mcpCommand, runSetup, cloneApplesauceRepo and  *)
(* the logger.  In the record of the start, repo is the state of the       *)
(* repository directory and out what the process has written: the set of   *)
(* [stream, by], by naming the call that wrote.                            *)
(***************************************************************************)
RequiredTables == { "docs", "examples", "methods" }

NoStartup ==
  [pc |-> "idle", mode |-> "", silentMode |-> FALSE, repoValid |-> FALSE,
   repo |-> "missing", out |-> {}]

\* logger.log / logger.warn / logger.error: console.* unless silentMode.
loggerWrite(st, stream, by) ==
  IF st.silentMode THEN st
  ELSE [st EXCEPT !.out = @ \cup {[stream |-> stream, by |-> by]}]

\* console.log, and a child process that inherits stdout and stderr.
processWrite(st, stream, by) == [st EXCEPT !.out = @ \cup {[stream |-> stream, by |-> by]}]

\* The repository directory: "missing", "valid" (it has a .git), or
\* "not git".
RepoStates == { "missing", "valid", "not git" }

isApplesauceRepoValid(repo) == repo = "valid"

areAllTablesIngested(tables) == RequiredTables \subseteq tables

StartupInit ==
  /\ phase = "startup"
  /\ ChunkIdle /\ SplitIdle /\ GarbageIdle /\ BoostIdle /\ GroupingIdle
  /\ ChunkTextIdle /\ IngestIdle
  /\ ModuleLoaded
  /\ initCall = <<>> /\ search = <<>>
  /\ diskIndices = {}
  /\ diskTables \in SUBSET RequiredTables
  /\ toolCall = <<>>
  /\ startup \in { [NoStartup EXCEPT !.repo = r] : r \in RepoStates }

startupUnchanged ==
  <<phase, chunkVars, splitVars, garbageVars, boostVars, groupingVars, chunkTextVars,
    ingestVars, moduleVars, diskIndices, initCall, search, toolCall>>

\* mcpCommand(options): the logger is set, isApplesauceRepoValid is awaited.
McpCommand(mode) ==
  /\ startup.pc = "idle"
  /\ startup' = [startup EXCEPT
                   !.pc = "isRepoValid",
                   !.mode = IF mode = <<>> THEN "stdio" ELSE mode[1],
                   !.silentMode = (mode = <<>> \/ mode = <<"stdio">>)]
  /\ UNCHANGED <<diskTables, startupUnchanged>>

\* isApplesauceRepoValid() resolves; areAllTablesIngested() is awaited.
StartupRepoChecked ==
  /\ startup.pc = "isRepoValid"
  /\ startup' = [startup EXCEPT !.pc = "areAllTablesIngested",
                                !.repoValid = isApplesauceRepoValid(startup.repo)]
  /\ UNCHANGED <<diskTables, startupUnchanged>>

\* areAllTablesIngested() resolves, false too when the database cannot be
\* read; the warnings are logged and runSetup runs up to its first await.
StartupTablesChecked ==
  /\ startup.pc = "areAllTablesIngested"
  /\ \E tablesIngested \in {FALSE, areAllTablesIngested(diskTables)} :
       IF ~startup.repoValid \/ ~tablesIngested
       THEN LET warned == loggerWrite(startup, "stderr", "logger.warn")
            IN  startup' = [processWrite(warned, "stdout", "console.log") EXCEPT
                              !.pc = "runSetup"]
       ELSE startup' = [startup EXCEPT !.pc = "createServer"]
  /\ UNCHANGED <<diskTables, startupUnchanged>>

\* runSetup: isApplesauceRepoValid() resolves; the clone starts, or step 2.
RunSetup ==
  /\ startup.pc = "runSetup"
  /\ startup' = [processWrite(startup, "stdout", "console.log") EXCEPT
                   !.pc = IF isApplesauceRepoValid(startup.repo) THEN "rebuild" ELSE "clone"]
  /\ UNCHANGED <<diskTables, startupUnchanged>>

\* cloneApplesauceRepo: a directory that is no repository is an error;
\* else git clone is started with stdout and stderr inherited.
CloneApplesauceRepo ==
  /\ startup.pc = "clone"
  /\ startup' = IF startup.repo = "not git"
                  THEN [startup EXCEPT !.pc = "failed"]
                  ELSE [loggerWrite(startup, "stdout", "logger.log") EXCEPT !.pc = "git"]
  /\ UNCHANGED <<diskTables, startupUnchanged>>

\* git clone exits: it has written its progress, or its error, to stderr.
GitCloneExits ==
  /\ startup.pc = "git"
  /\ LET cloned == processWrite(startup, "stderr", "git clone")
     IN  \/ startup' = [cloned EXCEPT !.pc = "failed"]
         \/ startup' = [processWrite(loggerWrite(cloned, "stdout", "logger.log"),
                                     "stdout", "console.log") EXCEPT
                          !.pc = "rebuild", !.repo = "valid"]
  /\ UNCHANGED <<diskTables, startupUnchanged>>

\* rebuildDocs, rebuildExamples, rebuildMethods: each makes its table and
\* logs through the logger, or fails; then runSetup reports and returns.
Rebuild ==
  /\ startup.pc = "rebuild"
  /\ \/ /\ \E built \in SUBSET RequiredTables :
             /\ built # RequiredTables
             /\ diskTables' = diskTables \cup built
          /\ startup' = [loggerWrite(startup, "stdout", "logger.log") EXCEPT !.pc = "failed"]
     \/ /\ diskTables' = RequiredTables
        /\ startup' = [processWrite(loggerWrite(startup, "stdout", "logger.log"),
                                    "stdout", "console.log") EXCEPT !.pc = "createServer"]
  /\ UNCHANGED startupUnchanged

\* The server is created and connected to its transport.
CreateServer ==
  /\ startup.pc = "createServer"
  /\ startup' = [(IF startup.mode = "http"
                    THEN loggerWrite(startup, "stdout", "logger.log")
                    ELSE loggerWrite(startup, "stderr", "logger.error")) EXCEPT
                   !.pc = "running"]
  /\ UNCHANGED <<diskTables, startupUnchanged>>

StartupNext ==
  \/ \E mode \in { <<>>, <<"stdio">>, <<"http">> } : McpCommand(mode)
  \/ StartupRepoChecked
  \/ StartupTablesChecked
  \/ RunSetup
  \/ CloneApplesauceRepo
  \/ GitCloneExits
  \/ Rebuild
  \/ CreateServer

SpecStartup == StartupInit /\ [][StartupNext]_vars

(***************************************************************************)
(* C23: once mcpCommand has switched the logger to silent mode (stdio      *)
(* mode), no step of the start writes to stdout or stderr, the automatic   *)
(* setup (clone of the repository, build of the database) included.        *)
(***************************************************************************)
C23_SilentStartupWritesNothing == startup.silentMode => startup.out = {}

====
